---- MODULE Spec2Model ----
(***************************************************************************)
(* merobot: the agent orchestration loop (agents/loop.py), the message bus *)
(* (handler/message_bus.py), the session store (handler/session/session.py)*)
(* and the tool registry with its schema validator (agents/tools.py,       *)
(* tools/base.py).                                                         *)
(*                                                                         *)
(* Text is modelled as a sequence of string tokens: an f-string is the     *)
(* sequence of its literal parts and its substituted values, "" is <<>>.   *)
(* An optional text (str | None) is [some, s]; None has some = FALSE.      *)
(* A Python value is [py, v]: py is the runtime type, v the value; a dict  *)
(* is the sequence of its [k, val] items in insertion order.               *)
(***************************************************************************)
EXTENDS Integers, Sequences, FiniteSets, TLC

(***************************************************************************)
(* Bounds of the model                                                     *)
(***************************************************************************)
\* inbound messages the channel adapters publish in one run
MaxInbound == 2
\* SessionManager(max_history=...): the configured cap of the session store
MaxHistory == 2
\* registry operations in one run of the registry specification
MaxRegOps == 2
\* add_message and clear calls in one run of the session store specification
MaxStoreOps == 5
\* executions of the sub-agent tool the agent loop starts in one run
MaxSubRuns == 2
\* executions of the sub-agent tool nested in one another
MaxSubDepth == 3
\* outbound messages published in one run of the dispatcher specification
MaxOutbound == 2
\* subscribe_outbound calls in one run of the dispatcher specification
MaxSubs == 3
\* calls on the Telegram channel handler in a run
MaxTgOps == 4
\* session calls and caller's changes in a run of the store with its objects
MaxCopyOps == 4

(***************************************************************************)
(* Program constants                                                       *)
(***************************************************************************)
MAX_TOOL_ITERATIONS == 10
\* SessionManager.__init__(self, max_history: int = 50)
DEFAULT_MAX_HISTORY == 50
MAX_SUB_AGENT_ITERATIONS == 5
\* asyncio.Queue(): maxsize 0, no limit on the number of items
QUEUE_MAXSIZE == 0

(***************************************************************************)
(* Text and optional text                                                  *)
(***************************************************************************)
None == [some |-> FALSE, s |-> <<>>]
Some(s) == [some |-> TRUE, s |-> s]
\* Python truthiness of a str | None
Truthy(o) == o.some /\ o.s # <<>>
\* x or d
OrElse(o, d) == IF Truthy(o) THEN o.s ELSE d
Contains(text, tok) == \E i \in DOMAIN text : text[i] = tok

RECURSIVE Flatten(_)
Flatten(ss) == IF ss = <<>> THEN <<>> ELSE Head(ss) \o Flatten(Tail(ss))

(***************************************************************************)
(* Python values                                                           *)
(***************************************************************************)
PyStr(s) == [py |-> "str", v |-> s]
PyInt(n) == [py |-> "int", v |-> n]
PyFloat(n) == [py |-> "float", v |-> n]
PyBool(b) == [py |-> "bool", v |-> b]
PyNone == [py |-> "NoneType", v |-> 0]
PyList(items) == [py |-> "list", v |-> items]
PyDict(items) == [py |-> "dict", v |-> items]
Item(k, val) == [k |-> k, val |-> val]
Keys(d) == {d.v[i].k : i \in DOMAIN d.v}

\* BaseTool._TYPE_MAP with isinstance: bool is a subclass of int in Python
TYPE_MAP ==
  [string  |-> {"str"},
   integer |-> {"int", "bool"},
   number  |-> {"int", "bool", "float"},
   boolean |-> {"bool"},
   array   |-> {"list"},
   object  |-> {"dict"}]

\* a faulty variant: isinstance that accepts every value
IsInstanceAny(val, t) == TRUE

IsInstance(val, t) == val.py \in TYPE_MAP[t]

IsNumeric(val) == val.py \in {"int", "bool", "float"}
Num(val) == IF val.py = "bool" THEN (IF val.v THEN 1 ELSE 0) ELSE val.v
\* Python ==: numbers compare by value across int, bool and float
PyEq(a, b) ==
  IF IsNumeric(a) /\ IsNumeric(b) THEN Num(a) = Num(b) ELSE a = b
InEnum(val, enum) == \E i \in DOMAIN enum : PyEq(val, enum[i])

SchemaType(schema) == IF "type" \in DOMAIN schema THEN schema.type ELSE "<none>"
Label(path) == IF path = "" THEN "parameter" ELSE path
Sub(path, k) == IF path = "" THEN k ELSE path \o "." \o k
Idx(path, i) == path \o "[" \o ToString(i - 1) \o "]"

(***************************************************************************)
(* BaseTool._validate: the list of error texts, empty when valid           *)
(***************************************************************************)
RECURSIVE Validate(_, _, _)
RECURSIVE ValidateProps(_, _, _)
RECURSIVE ValidateItems(_, _, _, _)

RequiredErrors(val, schema, path) ==
  LET req == IF "required" \in DOMAIN schema THEN schema.required ELSE <<>>
      Miss[i \in 0..Len(req)] ==
        IF i = 0 THEN <<>>
        ELSE IF req[i] \notin Keys(val)
             THEN Append(Miss[i - 1], <<"missing required ", Sub(path, req[i])>>)
             ELSE Miss[i - 1]
  IN Miss[Len(req)]

\* for k, v in val.items(): if k in props: errors.extend(self._validate(...))
ValidateProps(items, schema, path) ==
  IF items = <<>> THEN <<>>
  ELSE LET it == Head(items)
           props == IF "properties" \in DOMAIN schema THEN schema.properties
                    ELSE <<>>
           here == IF it.k \in DOMAIN props
                   THEN Validate(it.val, props[it.k], Sub(path, it.k))
                   ELSE <<>>
       IN here \o ValidateProps(Tail(items), schema, path)

ValidateItems(items, i, schema, path) ==
  IF i > Len(items) THEN <<>>
  ELSE Validate(items[i], schema.items, Idx(path, i))
         \o ValidateItems(items, i + 1, schema, path)

Validate(val, schema, path) ==
  LET t == SchemaType(schema)
      label == Label(path)
  IN IF t \in DOMAIN TYPE_MAP /\ ~IsInstance(val, t)
     THEN << <<label, " should be ", t>> >>
     ELSE
       (IF "enum" \in DOMAIN schema /\ ~InEnum(val, schema.enum)
        THEN << <<label, " must be one of ", "enum">> >> ELSE <<>>)
       \o
       (IF t \in {"integer", "number"}
        THEN (IF "minimum" \in DOMAIN schema /\ Num(val) < schema.minimum
              THEN << <<label, " must be >= ", ToString(schema.minimum)>> >>
              ELSE <<>>)
             \o
             (IF "maximum" \in DOMAIN schema /\ Num(val) > schema.maximum
              THEN << <<label, " must be <= ", ToString(schema.maximum)>> >>
              ELSE <<>>)
        ELSE <<>>)
       \o
       (IF t = "string"
        THEN (IF "minLength" \in DOMAIN schema /\ Len(val.v) < schema.minLength
              THEN << <<label, " must be at least ",
                        ToString(schema.minLength), " chars">> >>
              ELSE <<>>)
             \o
             (IF "maxLength" \in DOMAIN schema /\ Len(val.v) > schema.maxLength
              THEN << <<label, " must be at most ",
                        ToString(schema.maxLength), " chars">> >>
              ELSE <<>>)
        ELSE <<>>)
       \o
       (IF t = "object"
        THEN RequiredErrors(val, schema, path) \o ValidateProps(val.v, schema, path)
        ELSE <<>>)
       \o
       (IF t = "array" /\ "items" \in DOMAIN schema
        THEN ValidateItems(val.v, 1, schema, path)
        ELSE <<>>)

\* BaseTool._validate_params / validate_params: [raised, valid, errors]
validate_params(parameters, params) ==
  IF parameters.type # "object"
  THEN [raised |-> TRUE, valid |-> FALSE, errors |-> <<>>]
  ELSE LET errors == Validate(params, [parameters EXCEPT !.type = "object"], "")
       IN [raised |-> FALSE, valid |-> errors = <<>>, errors |-> errors]

(***************************************************************************)
(* The tools (tools/*.py): name and parameter schema; descriptions and     *)
(* "default" annotations, which the validator never reads, are left out    *)
(***************************************************************************)
Tool(name, parameters) == [name |-> name, parameters |-> parameters]

DateTimeTool ==
  Tool("get_current_datetime",
       [type |-> "object",
        properties |-> [timezone |-> [type |-> "string"],
                        format |-> [type |-> "string"]],
        required |-> <<>>])

WebSearchTool ==
  Tool("web_search",
       [type |-> "object",
        properties |-> [query |-> [type |-> "string", minLength |-> 1,
                                   maxLength |-> 500],
                        max_results |-> [type |-> "integer", minimum |-> 1,
                                         maximum |-> 10]],
        required |-> <<"query">>])

FileReadTool ==
  Tool("file_read",
       [type |-> "object",
        properties |-> [path |-> [type |-> "string", minLength |-> 1],
                        max_bytes |-> [type |-> "integer", minimum |-> 1,
                                       maximum |-> 1048576]],
        required |-> <<"path">>])

FileWriteTool ==
  Tool("file_write",
       [type |-> "object",
        properties |-> [path |-> [type |-> "string", minLength |-> 1],
                        content |-> [type |-> "string"],
                        mode |-> [type |-> "string",
                                  enum |-> <<PyStr("write"), PyStr("append")>>]],
        required |-> <<"path", "content">>])

WebScrapeTool ==
  Tool("web_scrape",
       [type |-> "object",
        properties |-> [url |-> [type |-> "string", minLength |-> 1],
                        max_length |-> [type |-> "integer", minimum |-> 100,
                                        maximum |-> 20000],
                        selector |-> [type |-> "string"]],
        required |-> <<"url">>])

CodeExecutorTool ==
  Tool("code_executor",
       [type |-> "object",
        properties |-> [code |-> [type |-> "string", minLength |-> 1],
                        timeout |-> [type |-> "integer", minimum |-> 1,
                                     maximum |-> 120]],
        required |-> <<"code">>])

SQLiteQueryTool ==
  Tool("sqlite_query",
       [type |-> "object",
        properties |-> [query |-> [type |-> "string", minLength |-> 1],
                        params |-> [type |-> "array", items |-> <<>>]],
        required |-> <<"query">>])

SubAgentTool ==
  Tool("sub_agent",
       [type |-> "object",
        properties |-> [task |-> [type |-> "string", minLength |-> 1],
                        context |-> [type |-> "string"]],
        required |-> <<"task">>])

(***************************************************************************)
(* ToolRegistry (agents/tools.py).  The registry is the dict _tools: a     *)
(* function from the registered names to the tools.                        *)
(***************************************************************************)
EmptyRegistry == [n \in {} |-> DateTimeTool]

\* a faulty variant: a duplicate registration overwrites the first tool
registerOverwrite(reg, tool) ==
  [raised |-> FALSE,
   reg |-> [n \in DOMAIN reg \cup {tool.name} |->
              IF n = tool.name THEN tool ELSE reg[n]]]

\* register: [raised, reg]
register(reg, tool) ==
  IF tool.name \in DOMAIN reg
  THEN [raised |-> TRUE, reg |-> reg]
  ELSE [raised |-> FALSE,
        reg |-> [n \in DOMAIN reg \cup {tool.name} |->
                   IF n = tool.name THEN tool ELSE reg[n]]]

unregister(reg, name) == [n \in DOMAIN reg \ {name} |-> reg[n]]

\* AgentLoop._register_tools: the registry every agent loop starts with
RECURSIVE RegisterAll(_, _)
RegisterAll(reg, ts) ==
  IF ts = <<>> THEN reg ELSE RegisterAll(register(reg, Head(ts)).reg, Tail(ts))
_register_tools ==
  RegisterAll(EmptyRegistry,
              <<DateTimeTool, FileReadTool, FileWriteTool, WebScrapeTool,
                WebSearchTool, CodeExecutorTool, SQLiteQueryTool, SubAgentTool>>)

\* What a tool's own execute does with validated arguments is the tool's
\* business: it returns a text, or raises an exception of some kind.
Returns(text) == [raises |-> FALSE, kind |-> "", text |-> text]
Raises(kind, text) == [raises |-> TRUE, kind |-> kind, text |-> text]

\* a faulty variant: the lookup result is not checked, a missing tool is "executed"
executeUnchecked(reg, name, params, how) ==
  [result |-> how.text, invoked |-> TRUE, raised |-> FALSE]

\* a faulty variant: the validation result is ignored
executeUnvalidated(reg, name, params, how) ==
  IF name \notin DOMAIN reg
  THEN [result |-> <<"Error: Tool '", name, "' not found.">>,
        invoked |-> FALSE, raised |-> FALSE]
  ELSE [result |-> how.text, invoked |-> TRUE, raised |-> how.raises]

\* a faulty variant: the sub-agent tool is invoked outside the try block, so
\* that what its execute raises leaves the registry call
executeSubAgentUnguarded(reg, name, params, how) ==
  IF name \notin DOMAIN reg
  THEN [result |-> <<"Error: Tool '", name, "' not found.">>,
        invoked |-> FALSE, raised |-> FALSE]
  ELSE LET validation == validate_params(reg[name].parameters, params)
       IN IF validation.raised
          THEN [result |-> <<"Error: executing '", name, "': ", "ValueError",
                             ": ", "Schema must be object type, got ",
                             "'" \o reg[name].parameters.type \o "'">>,
                invoked |-> FALSE, raised |-> FALSE]
          ELSE IF ~validation.valid
          THEN [result |-> <<"Error: Invalid params for tool '", name, "': ">>
                             \o Flatten(validation.errors),
                invoked |-> FALSE, raised |-> FALSE]
          ELSE IF how.raises /\ name = "sub_agent"
          THEN [result |-> <<>>, invoked |-> TRUE, raised |-> TRUE]
          ELSE IF how.raises
          THEN [result |-> <<"Error: executing '", name, "': ", how.kind,
                             ": ">> \o how.text,
                invoked |-> TRUE, raised |-> FALSE]
          ELSE [result |-> how.text, invoked |-> TRUE, raised |-> FALSE]

\* a faulty variant: no try/except around validation and invocation
executePropagates(reg, name, params, how) ==
  IF name \notin DOMAIN reg
  THEN [result |-> <<"Error: Tool '", name, "' not found.">>,
        invoked |-> FALSE, raised |-> FALSE]
  ELSE LET validation == validate_params(reg[name].parameters, params)
       IN IF validation.raised
          THEN [result |-> <<>>, invoked |-> FALSE, raised |-> TRUE]
          ELSE IF ~validation.valid
          THEN [result |-> <<"Error: Invalid params for tool '", name, "': ">>
                             \o Flatten(validation.errors),
                invoked |-> FALSE, raised |-> FALSE]
          ELSE IF how.raises
          THEN [result |-> <<>>, invoked |-> TRUE, raised |-> TRUE]
          ELSE [result |-> how.text, invoked |-> TRUE, raised |-> FALSE]

\* ToolRegistry.execute: the text returned, whether the tool's execute entry
\* point was invoked, and whether an exception left the call
execute(reg, name, params, how) ==
  IF name \notin DOMAIN reg
  THEN [result |-> <<"Error: Tool '", name, "' not found.">>,
        invoked |-> FALSE, raised |-> FALSE]
  ELSE LET validation == validate_params(reg[name].parameters, params)
       IN IF validation.raised
          THEN [result |-> <<"Error: executing '", name, "': ", "ValueError",
                             ": ", "Schema must be object type, got ",
                             "'" \o reg[name].parameters.type \o "'">>,
                invoked |-> FALSE, raised |-> FALSE]
          ELSE IF ~validation.valid
          THEN [result |-> <<"Error: Invalid params for tool '", name, "': ">>
                             \o Flatten(validation.errors),
                invoked |-> FALSE, raised |-> FALSE]
          ELSE IF how.raises
          THEN [result |-> <<"Error: executing '", name, "': ", how.kind,
                             ": ">> \o how.text,
                invoked |-> TRUE, raised |-> FALSE]
          ELSE [result |-> how.text, invoked |-> TRUE, raised |-> FALSE]

(***************************************************************************)
(* json.dumps of a tool call's arguments                                   *)
(***************************************************************************)
RECURSIVE JsonDumps(_)
RECURSIVE JsonJoin(_, _)
JsonJoin(items, isDict) ==
  IF items = <<>> THEN <<>>
  ELSE (IF isDict
        THEN <<"\"", Head(items).k, "\"", ": ">> \o JsonDumps(Head(items).val)
        ELSE JsonDumps(Head(items)))
       \o (IF Tail(items) = <<>> THEN <<>> ELSE <<", ">>)
       \o JsonJoin(Tail(items), isDict)
JsonDumps(val) ==
  CASE val.py = "str" -> <<"\"", val.v, "\"">>
    [] val.py = "int" -> <<ToString(val.v)>>
    [] val.py = "float" -> <<ToString(val.v), ".0">>
    [] val.py = "bool" -> <<IF val.v THEN "true" ELSE "false">>
    [] val.py = "NoneType" -> <<"null">>
    [] val.py = "list" -> <<"[">> \o JsonJoin(val.v, FALSE) \o <<"]">>
    [] val.py = "dict" -> <<"{">> \o JsonJoin(val.v, TRUE) \o <<"}">>

(***************************************************************************)
(* State                                                                   *)
(***************************************************************************)
VARIABLES
  \* MessageBus
  inbound,        \* the inbound queue
  outbound,       \* the outbound queue
  \* SessionManager
  sessions,       \* _sessions: chat id -> list of entries
  max_history,    \* _max_history
  \* AgentLoop.run / _process_message: where the coroutine is suspended, and
  \* its locals
  pc,             \* "idle" (consume_inbound), "llm" (generate_response),
                  \* "tool" (tool_registry.execute), "crashed", "cancelled"
  msg,            \* the inbound message being processed
  iteration,      \* the loop variable of the LLM call loop
  llm_response,   \* the last response of the backend
  tc_idx,         \* position in llm_response.tool_calls
  inflight,       \* the tool calls whose execution has started and not returned
  messages,       \* the in-flight message list of _process_message, empty
                  \* outside a turn; kept only where a specification says so
  \* ToolRegistry
  tools,          \* _tools
  exec_count,     \* per tool name: calls of the tool's execute entry point
  reg_last,       \* the outcome of the last registry operation
  reg_ops,        \* registry operations so far
  \* history of the run
  published,      \* every inbound message published, in publish order
  turnlog,        \* consume / reply / abandon events, by inbound timestamp
  llm_calls,      \* backend calls of the current turn
  tool_execs,     \* registry.execute calls of the current turn
  hist0,          \* length of the conversation's history when the turn began
  trimmed,        \* whether an add_message of the current turn dropped entries
  round_log,      \* start / return events of the current round's tool calls
  round_tools,    \* the tool entries the current round passed to add_message
  turn_text,      \* the text of the last response of the current turn that
                  \* carried one, None when none did
  \* SessionManager driven directly
  added,          \* per chat id: the entries added since the chat was last cleared
  store_ops,      \* add_message and clear calls so far
  store_last,     \* the last call: its name and chat id
  wiped,          \* per chat id: the entries its clear calls discarded
  \* SubAgentTool.execute
  frames,         \* the executions of the sub-agent tool in progress, outermost first
  sub_rets,       \* the executions that returned in the last step, innermost first
  sub_runs,       \* executions started by the agent loop's registry call
  \* MessageBus.dispatch_outbound and its subscribers
  subscribers,    \* _outbound_subscribers: channel -> list of callbacks
  disp,           \* the dispatcher: where it is suspended, and its locals
  cb_calls,       \* every callback invocation so far: [cb, m]
  dequeued,       \* outbound messages the dispatcher has taken, in order
  sent,           \* outbound messages published so far
  subs_made,      \* subscribe_outbound calls so far
  cb_outcomes,    \* per finished callback invocation: whether it raised
  stop_at,        \* -1, or the number of messages dequeued when stop() was called
  \* a caller of get_history and build
  objs,           \* the dict objects created so far; an object is named by
                  \* its number in the order of creation
  refs,           \* _sessions as lists of objects: chat id -> object numbers
  held,           \* the list the caller was handed last: object numbers
  system_prompt,  \* AgentContextBuilder._system_prompt, None before __init__
  copy_last,      \* the last call or caller's change
  copy_ops,       \* calls and caller's changes so far
  \* TelegramChannelHandler
  tg,             \* _running, _app, _bot
  tg_env,         \* the applications built, their handlers, the bots' sends
  tg_log,         \* the connect, disconnect and send_message calls so far
  \* Application.start
  app             \* "init", "running", "agent_cancelled", "stopped"

busVars == <<inbound, outbound>>
sessVars == <<sessions, max_history>>
loopVars == <<pc, msg, iteration, llm_response, tc_idx, inflight, messages>>
regVars == <<tools, exec_count, reg_last, reg_ops>>
histVars == <<published, turnlog, llm_calls, tool_execs, hist0, trimmed,
              round_log, round_tools, turn_text>>
storeVars == <<added, store_ops, store_last, wiped>>
subVars == <<frames, sub_rets, sub_runs>>
dispVars == <<subscribers, disp, cb_calls, dequeued, sent, subs_made,
              cb_outcomes, stop_at>>
callerVars == <<objs, refs, held, system_prompt, copy_last, copy_ops>>
tgVars == <<tg, tg_env, tg_log>>
restVars == <<callerVars, tgVars, app>>
auxVars == <<storeVars, subVars, dispVars, restVars>>
vars == <<busVars, sessVars, loopVars, regVars, histVars, auxVars>>

(***************************************************************************)
(* SessionManager (handler/session/session.py)                             *)
(***************************************************************************)
Entry(role, content, tool_calls, tool_call_id, name) ==
  [role |-> role, content |-> content, tool_calls |-> tool_calls,
   tool_call_id |-> tool_call_id, name |-> name]
UserEntry(text) == Entry("user", Some(text), <<>>, "", "")
AssistantEntry(content, tool_calls) == Entry("assistant", content, tool_calls, "", "")
ToolEntry(text, id, name) == Entry("tool", Some(text), <<>>, id, name)

\* the first and the last line of the default prompt
SYSTEM_PROMPT ==
  <<"You are MeroBot, a capable and friendly personal AI assistant.", "\n\n",
    "Always think step-by-step before answering complex questions.">>
SystemEntry(text) == Entry("system", Some(text), <<>>, "", "")

IsSystem(m) == m.role = "system"
NotSystem(m) == m.role # "system"

get_history(ss, chat_id) == IF chat_id \in DOMAIN ss THEN ss[chat_id] ELSE <<>>

\* a faulty variant: no trimming at all
trimNever(msgs, cap) == msgs

\* a faulty variant: the newest entries are dropped instead of the oldest
trimNewest(msgs, cap) ==
  LET system == SelectSeq(msgs, IsSystem)
      conversation == SelectSeq(msgs, NotSystem)
  IN system \o (IF Len(conversation) > cap
                THEN SubSeq(conversation, 1, cap) ELSE conversation)

\* a faulty variant: the cap counts system entries too
trimCountsSystem(msgs, cap) ==
  IF Len(msgs) > cap THEN SubSeq(msgs, Len(msgs) - cap + 1, Len(msgs)) ELSE msgs

\* a faulty variant: the oldest non-system entries are dropped where they
\* stand, and the system entries stay where they were added
RECURSIVE DropOldest(_, _)
DropOldest(msgs, d) ==
  IF msgs = <<>> THEN <<>>
  ELSE IF d > 0 /\ NotSystem(Head(msgs)) THEN DropOldest(Tail(msgs), d - 1)
  ELSE <<Head(msgs)>> \o DropOldest(Tail(msgs), d)
trimInPlace(msgs, cap) ==
  LET n == Len(SelectSeq(msgs, NotSystem))
  IN IF n > cap THEN DropOldest(msgs, n - cap) ELSE msgs

\* a faulty variant: the list is rebuilt only when the cap is exceeded
trimWhenOver(msgs, cap) ==
  LET system == SelectSeq(msgs, IsSystem)
      conversation == SelectSeq(msgs, NotSystem)
      n == Len(conversation)
  IN IF n > cap THEN system \o SubSeq(conversation, n - cap + 1, n) ELSE msgs

\* _trim
trim(msgs, cap) ==
  LET system == SelectSeq(msgs, IsSystem)
      conversation == SelectSeq(msgs, NotSystem)
      n == Len(conversation)
  IN system \o (IF n > cap THEN SubSeq(conversation, n - cap + 1, n)
                ELSE conversation)

\* a faulty variant: the entry is stored twice
add_messageTwice(ss, cap, chat_id, entry) ==
  [c \in DOMAIN ss \cup {chat_id} |->
     IF c = chat_id
     THEN trim(Append(Append(get_history(ss, chat_id), entry), entry), cap)
     ELSE ss[c]]

\* a faulty variant: the entry is put in front of the history
add_messageInFront(ss, cap, chat_id, entry) ==
  [c \in DOMAIN ss \cup {chat_id} |->
     IF c = chat_id THEN trim(<<entry>> \o get_history(ss, chat_id), cap)
     ELSE ss[c]]

add_message(ss, cap, chat_id, entry) ==
  [c \in DOMAIN ss \cup {chat_id} |->
     IF c = chat_id THEN trim(Append(get_history(ss, chat_id), entry), cap)
     ELSE ss[c]]

\* a faulty variant: clear leaves the history in place
clearNothing(ss, chat_id) == ss

\* a faulty variant: clear empties the history and keeps the conversation id
clearKeepsId(ss, chat_id) ==
  [c \in DOMAIN ss |-> IF c = chat_id THEN <<>> ELSE ss[c]]

\* a faulty variant: clear drops every conversation
clearEverything(ss, chat_id) == [c \in {} |-> <<>>]

\* self._sessions.pop(chat_id, None): with the default given, pop of a key the
\* dict does not hold returns it and raises nothing
clear(ss, chat_id) == [c \in DOMAIN ss \ {chat_id} |-> ss[c]]

\* whether add_message(ss, cap, chat_id, entry) drops an entry
Drops(ss, cap, chat_id, entry) ==
  Len(SelectSeq(Append(get_history(ss, chat_id), entry), NotSystem)) > cap

(***************************************************************************)
(* Messages (handler/messages.py) and the inputs of the model              *)
(***************************************************************************)
InboundMessage(channel, content, sender_id, chat_id, media, metadata) ==
  [channel |-> channel, content |-> content, sender_id |-> sender_id,
   chat_id |-> chat_id, timestamp |-> 0, media |-> media,
   metadata |-> metadata]
\* metadata: "" stands for a key the dict does not hold
Meta(command, media_type) == [command |-> command, media_type |-> media_type]
NoMessage == InboundMessage("", <<>>, "", "", <<>>, Meta("", ""))

\* what the channel adapters publish: a text, a text in a second chat, the
\* /clear command (telegram.py _handle_clear)
InboundInputs ==
  { InboundMessage("telegram", <<"hi there">>, "7", "42", <<>>, Meta("", "")),
    InboundMessage("telegram", <<"hello">>, "8", "43", <<>>, Meta("", "")),
    InboundMessage("telegram", <<"/clear">>, "7", "42", <<>>, Meta("clear", "")) }
\* and, for a single turn, also a photo without caption and two documents
\* with a caption
TurnInputs ==
  InboundInputs \cup
  { InboundMessage("telegram", <<>>, "7", "42", <<"media/42/photo_1.jpg">>,
                   Meta("", "photo")),
    InboundMessage("telegram", <<"compare these">>, "7", "42",
                   <<"media/42/a.pdf", "media/42/b.pdf">>, Meta("", "")) }

\* a faulty variant: the reply is addressed to the chat id as recipient
OutboundSwapped(original, text) ==
  [channel |-> original.channel, content |-> text,
   recipient_id |-> original.chat_id, chat_id |-> original.sender_id,
   media |-> <<>>]

\* _send_response: the OutboundMessage for a reply
OutboundFor(original, text) ==
  [channel |-> original.channel, content |-> text,
   recipient_id |-> original.sender_id, chat_id |-> original.chat_id,
   media |-> <<>>]

ClearAck == <<"Conversation history cleared. Let's start fresh!">>
EmptyFallback == <<"I'm not sure how to respond to that.">>
LimitMessage == <<"I ran into a limit processing your request. Please try again.">>

(***************************************************************************)
(* The model backend and the tools' own behaviour: the environment         *)
(***************************************************************************)
ToolCall(id, name, arguments) == [id |-> id, name |-> name, arguments |-> arguments]
LLMResponse(content, tool_calls) == [content |-> content, tool_calls |-> tool_calls]
NoResponse == LLMResponse(None, <<>>)
has_tool_calls(r) == Len(r.tool_calls) > 0

\* a valid call of a registered tool
CallClock == ToolCall("call_1", "get_current_datetime", PyDict(<<>>))
\* a name no tool is registered under (the name tests/test_agent_loop.py uses)
CallUnknown == ToolCall("call_2", "date_time", PyDict(<<>>))
\* arguments of the wrong type
CallBadArgs ==
  ToolCall("call_3", "web_search",
           PyDict(<<Item("query", PyStr("tla")), Item("max_results", PyStr("5"))>>))
\* a valid call of a tool whose execution fails
CallFailing ==
  ToolCall("call_4", "code_executor", PyDict(<<Item("code", PyStr("1/0"))>>))

Responses ==
  { LLMResponse(Some(<<"Hello! How can I help?">>), <<>>),
    LLMResponse(None, <<>>),
    LLMResponse(None, <<CallClock>>),
    LLMResponse(Some(<<"Let me check.">>), <<CallUnknown, CallBadArgs, CallFailing>>) }

\* what the tool's execute does once the registry invokes it
Outcomes(name) ==
  CASE name = "get_current_datetime" -> {Returns(<<"2026-02-14 15:00:00">>)}
    [] name = "code_executor" -> {Raises("RuntimeError", <<"sandbox unavailable">>)}
    [] name = "sub_agent" ->
         \* the nested loop's final text, or the exception of its backend
         { Returns(<<"Done.">>),
           Returns(<<"Sub-agent completed but produced no output.">>),
           Returns(<<"Sub-agent reached its iteration limit without a final answer.">>),
           Returns(<<"Error: 'task' parameter is required.">>),
           Raises("RuntimeError", <<"backend down">>) }
    [] OTHER -> {Returns(<<"result">>)}

(***************************************************************************)
(* AgentLoop (agents/loop.py)                                              *)
(***************************************************************************)
Whitespace == {"", " ", "\n\n"}
RECURSIVE LStrip(_)
LStrip(text) ==
  IF text # <<>> /\ Head(text) \in Whitespace THEN LStrip(Tail(text)) ELSE text
RECURSIVE RStrip(_)
RStrip(text) ==
  IF text # <<>> /\ text[Len(text)] \in Whitespace
  THEN RStrip(SubSeq(text, 1, Len(text) - 1)) ELSE text
Strip(text) == RStrip(LStrip(text))

RECURSIVE Join(_, _)
Join(parts, sep) ==
  IF parts = <<>> THEN <<>>
  ELSE IF Tail(parts) = <<>> THEN <<Head(parts)>>
  ELSE <<Head(parts), sep>> \o Join(Tail(parts), sep)

\* _process_message, step 1: the user content (text + media context)
UserContent(m) ==
  IF m.media # <<>>
  THEN LET media_type == IF m.metadata.media_type = "" THEN "file"
                         ELSE m.metadata.media_type
       IN Strip(m.content \o <<"\n\n", "[User attached ", media_type,
                               " file(s) saved at: ">>
                \o Join(m.media, ", ")
                \o <<". You can read or analyze these files using your tools.]">>)
  ELSE m.content

\* the tool_calls field of the assistant entry
FunctionCall(tc) ==
  [id |-> tc.id, type |-> "function",
   function |-> [name |-> tc.name, arguments |-> JsonDumps(tc.arguments)]]
SerialisedCalls(calls) == [j \in DOMAIN calls |-> FunctionCall(calls[j])]

\* context_builder.build(chat_id) of the agent loop, whose builder is made
\* without a prompt of its own: the system entry, then a copy of the history
context_build(ss, chat_id) ==
  <<SystemEntry(SYSTEM_PROMPT)>> \o get_history(ss, chat_id)

\* assistant_msg, the entry appended to the in-flight list: the content key is
\* set only if llm_response.content is truthy
AssistantMsg(r) ==
  AssistantEntry(IF Truthy(r.content) THEN r.content ELSE None,
                 SerialisedCalls(r.tool_calls))

\* a faulty variant: the loop gives up one round early
MoreIterationsOneLess(i) == i + 1 < MAX_TOOL_ITERATIONS - 1

\* a faulty variant: one call more than the budget
MoreIterationsOffByOne(i) == i + 1 <= MAX_TOOL_ITERATIONS

\* for iteration in range(MAX_TOOL_ITERATIONS): whether a round follows round i
MoreIterations(i) == i + 1 < MAX_TOOL_ITERATIONS

\* a faulty variant: all calls of the response are started together
LaunchAll(calls, j) == IF j = 1 THEN [i \in 1..Len(calls) |-> i] ELSE <<>>

\* for tc in llm_response.tool_calls: result = await execute(...): the calls
\* started when the loop reaches position j
Launch(calls, j) == <<j>>

\* a faulty variant: the tool entry carries the id of the response's first call
ToolEntryFirstId(calls, j, text) == ToolEntry(text, calls[1].id, calls[j].name)

\* the tool entry recorded for call j
ToolEntryFor(calls, j, text) == ToolEntry(text, calls[j].id, calls[j].name)

\* a faulty variant: the exception leaves run() and the task ends
AfterExceptionCrash == "crashed"

\* run(): except Exception: log, and go round the while loop again
AfterException == "idle"

\* a faulty variant: the entries the failed turn recorded are taken back
SessionsRolledBack(ss, chat_id, h0) ==
  [c \in DOMAIN ss |->
     IF c = chat_id /\ Len(ss[c]) > h0 THEN SubSeq(ss[c], 1, h0) ELSE ss[c]]

\* run(): except Exception logs and does nothing else: the session keeps what
\* the turn added to it before the exception
SessionsAfterException(ss, chat_id, h0) == ss

\* a faulty variant: a new message is taken while a turn is suspended
CanConsumeAnytime == pc \in {"idle", "llm", "tool"}

\* a faulty variant: run() handles one message and returns
CanConsumeOnce == pc = "idle" /\ turnlog = <<>>

\* run() is at `await self.message_bus.consume_inbound()`
CanConsume == pc = "idle"

\* a faulty variant: the clear command is answered by the backend like a text
IsClearNever(m) == FALSE

IsClear(m) == m.metadata.command = "clear"

\* a faulty variant: the empty-answer fallback is forgotten
FinalAnswerRaw(r) == r.content.s

\* content = llm_response.content or "I'm not sure how to respond to that."
FinalAnswer(r) == OrElse(r.content, EmptyFallback)

\* a faulty variant: the reply at the end of the budget is the last tool result
BudgetFallbackToolResult(r) ==
  IF round_tools # <<>> THEN round_tools[Len(round_tools)].content.s
  ELSE OrElse(r.content, LimitMessage)

\* content or "I ran into a limit processing your request. Please try again."
BudgetFallback(r) == OrElse(r.content, LimitMessage)

StartEvents(js) == [i \in DOMAIN js |-> [ev |-> "start", j |-> js[i]]]
Range(f) == {f[i] : i \in DOMAIN f}

\* a faulty variant: a queue of one slot
fullAtOne(q) == Len(q) >= 1

\* asyncio.Queue.full: put suspends while it holds
full(q) == QUEUE_MAXSIZE > 0 /\ Len(q) >= QUEUE_MAXSIZE

\* a faulty variant: the newest item is handed out first
putFirst(q, item) == <<item>> \o q

\* asyncio.Queue.put / get on the deque: append right, pop left
put(q, item) == Append(q, item)

\* MessageBus.publish_inbound, called by a channel adapter
PublishInbound(m, limit) ==
  /\ Len(published) < limit
  /\ ~full(inbound)
  /\ LET stamped == [m EXCEPT !.timestamp = Len(published) + 1]
     IN /\ inbound' = put(inbound, stamped)
        /\ published' = Append(published, stamped)
  /\ UNCHANGED <<outbound, sessVars, loopVars, regVars, turnlog, llm_calls,
                 tool_execs, hist0, trimmed, round_log, round_tools, turn_text,
                 auxVars>>

\* run(): consume_inbound returns; _process_message runs to its first await
\* (the backend call), or, for the clear command, to the end of the turn
Consume ==
  /\ CanConsume
  /\ inbound # <<>>
  /\ LET m == Head(inbound)
         user == UserEntry(UserContent(m))
     IN /\ inbound' = Tail(inbound)
        /\ msg' = m
        /\ hist0' = Len(get_history(sessions, m.chat_id))
        /\ iteration' = 0
        /\ llm_response' = NoResponse
        /\ tc_idx' = 0
        /\ inflight' = {}
        /\ tool_execs' = 0
        /\ round_log' = <<>>
        /\ round_tools' = <<>>
        /\ turn_text' = None
        /\ IF IsClear(m)
           THEN /\ sessions' = clear(sessions, m.chat_id)
                /\ outbound' = put(outbound, OutboundFor(m, ClearAck))
                /\ turnlog' = turnlog \o <<[ev |-> "consume", n |-> m.timestamp],
                                          [ev |-> "reply", n |-> m.timestamp]>>
                /\ pc' = "idle"
                /\ llm_calls' = 0
                /\ trimmed' = FALSE
           ELSE /\ sessions' = add_message(sessions, max_history, m.chat_id, user)
                /\ trimmed' = Drops(sessions, max_history, m.chat_id, user)
                /\ turnlog' = Append(turnlog, [ev |-> "consume", n |-> m.timestamp])
                /\ pc' = "llm"
                /\ llm_calls' = 1
                /\ UNCHANGED outbound
  /\ UNCHANGED <<max_history, regVars, published, auxVars>>

\* the turn ends: _send_response publishes the reply
Reply(text) ==
  /\ outbound' = put(outbound, OutboundFor(msg, text))
  /\ turnlog' = Append(turnlog, [ev |-> "reply", n |-> msg.timestamp])
  /\ pc' = "idle"

\* generate_response returns r
LLMReturn(r) ==
  /\ pc = "llm"
  /\ llm_response' = r
  /\ round_tools' = <<>>
  /\ turn_text' = (IF Truthy(r.content) THEN r.content ELSE turn_text)
  /\ IF ~has_tool_calls(r)
     THEN LET content == FinalAnswer(r)
              final == AssistantEntry(Some(content), <<>>)
          IN /\ sessions' = add_message(sessions, max_history, msg.chat_id, final)
             /\ trimmed' = (trimmed \/ Drops(sessions, max_history, msg.chat_id, final))
             /\ Reply(content)
             /\ round_log' = <<>>
             /\ UNCHANGED <<tc_idx, inflight>>
     ELSE LET asst == AssistantEntry(r.content, SerialisedCalls(r.tool_calls))
              started == Launch(r.tool_calls, 1)
          IN /\ sessions' = add_message(sessions, max_history, msg.chat_id, asst)
             /\ trimmed' = (trimmed \/ Drops(sessions, max_history, msg.chat_id, asst))
             /\ pc' = "tool"
             /\ tc_idx' = 1
             /\ inflight' = Range(started)
             /\ round_log' = StartEvents(started)
             /\ UNCHANGED <<outbound, turnlog>>
  /\ UNCHANGED <<inbound, max_history, msg, iteration, regVars, published,
                 llm_calls, tool_execs, hist0, auxVars>>

\* generate_response raises: the exception leaves _process_message and is
\* caught in run()
LLMRaise ==
  /\ pc = "llm"
  /\ pc' = AfterException
  /\ turnlog' = Append(turnlog, [ev |-> "abandon", n |-> msg.timestamp])
  /\ sessions' = SessionsAfterException(sessions, msg.chat_id, hist0)
  /\ UNCHANGED <<busVars, max_history, msg, iteration, llm_response, tc_idx,
                 inflight, regVars, published, llm_calls, tool_execs, hist0,
                 trimmed, round_log, round_tools, turn_text, auxVars>>

\* tool_registry.execute returns for the call at tc_idx; the loop records the
\* tool entry and goes on: the next call, the next backend call, or the end
\* of the budget
ToolReturn(how) ==
  /\ pc = "tool"
  /\ LET calls == llm_response.tool_calls
         tc == calls[tc_idx]
         r == execute(tools, tc.name, tc.arguments, how)
         entry == ToolEntryFor(calls, tc_idx, r.result)
         s1 == add_message(sessions, max_history, msg.chat_id, entry)
         d1 == Drops(sessions, max_history, msg.chat_id, entry)
         returned == [ev |-> "return", j |-> tc_idx]
     IN /\ how \in Outcomes(tc.name)
        /\ tool_execs' = tool_execs + 1
        /\ IF r.raised
           THEN \* an exception leaving execute leaves _process_message too
                /\ pc' = AfterException
                /\ turnlog' = Append(turnlog, [ev |-> "abandon", n |-> msg.timestamp])
                /\ inflight' = inflight \ {tc_idx}
                /\ UNCHANGED <<sessions, trimmed, round_tools, round_log, tc_idx,
                               iteration, llm_calls, outbound>>
           ELSE /\ round_tools' = Append(round_tools, entry)
                /\ IF tc_idx < Len(calls)
                   THEN LET started == Launch(calls, tc_idx + 1)
                        IN /\ tc_idx' = tc_idx + 1
                           /\ inflight' = (inflight \ {tc_idx}) \cup Range(started)
                           /\ round_log' = Append(round_log, returned) \o StartEvents(started)
                           /\ sessions' = s1
                           /\ trimmed' = (trimmed \/ d1)
                           /\ UNCHANGED <<pc, iteration, llm_calls, outbound, turnlog>>
                   ELSE /\ inflight' = inflight \ {tc_idx}
                        /\ round_log' = Append(round_log, returned)
                        /\ UNCHANGED tc_idx
                        /\ IF MoreIterations(iteration)
                           THEN /\ iteration' = iteration + 1
                                /\ pc' = "llm"
                                /\ llm_calls' = llm_calls + 1
                                /\ sessions' = s1
                                /\ trimmed' = (trimmed \/ d1)
                                /\ UNCHANGED <<outbound, turnlog>>
                           ELSE LET fallback == BudgetFallback(llm_response)
                                    final == AssistantEntry(Some(fallback), <<>>)
                                IN /\ sessions' = add_message(s1, max_history, msg.chat_id, final)
                                   /\ trimmed' = (trimmed \/ d1
                                                  \/ Drops(s1, max_history, msg.chat_id, final))
                                   /\ Reply(fallback)
                                   /\ UNCHANGED <<iteration, llm_calls>>
  /\ UNCHANGED <<inbound, max_history, msg, llm_response, regVars, published,
                 hist0, turn_text, auxVars>>

(***************************************************************************)
(* The parts of the state the agent loop on its own never touches          *)
(***************************************************************************)
Chats == {"42", "43"}
NoFrame == <<>>
NoOutbound ==
  [channel |-> "", content |-> <<>>, recipient_id |-> "", chat_id |-> "",
   media |-> <<>>]
\* the dispatch task before its first step: _running is False since __init__
DispIdle == [pc |-> "new", m |-> NoOutbound, k |-> 0, running |-> FALSE]
NoList == [kind |-> "none", chat_id |-> "", items |-> <<>>]
\* TelegramChannelHandler.__init__: _running False, _app and _bot None (0);
\* an Application is named by its number in the order of building
TgNew == [running |-> FALSE, app |-> 0, bot |-> 0]
\* what python-telegram-bot has been asked to do: per Application built, the
\* number of handlers added to it; the Applications shut down; the bots' sends
TgEnvNew == [handlers |-> <<>>, shutdowns |-> <<>>, sends |-> <<>>]
RestInit ==
  /\ objs = <<>>
  /\ refs = [c \in {} |-> <<>>]
  /\ held = NoList
  /\ system_prompt = None
  /\ copy_last = [op |-> "none", chat_id |-> "", again |-> FALSE]
  /\ copy_ops = 0
  /\ tg = TgNew
  /\ tg_env = TgEnvNew
  /\ tg_log = <<>>
  /\ app = "init"

AuxInit ==
  /\ added = [c \in Chats |-> <<>>]
  /\ wiped = [c \in Chats |-> <<>>]
  /\ store_ops = 0
  /\ store_last = [op |-> "none", chat_id |-> ""]
  /\ frames = NoFrame
  /\ sub_rets = <<>>
  /\ sub_runs = 0
  /\ subscribers = [c \in {} |-> <<>>]
  /\ disp = DispIdle
  /\ cb_calls = <<>>
  /\ dequeued = <<>>
  /\ sent = 0
  /\ subs_made = 0
  /\ cb_outcomes = <<>>
  /\ stop_at = -1
  /\ RestInit

(***************************************************************************)
(* The agent loop between the two queues, with the configured cap          *)
(***************************************************************************)
LoopInit ==
  /\ inbound = <<>>
  /\ outbound = <<>>
  /\ sessions = [c \in {} |-> <<>>]
  /\ pc = "idle"
  /\ msg = NoMessage
  /\ iteration = 0
  /\ llm_response = NoResponse
  /\ tc_idx = 0
  /\ inflight = {}
  /\ messages = <<>>
  /\ published = <<>>
  /\ turnlog = <<>>
  /\ llm_calls = 0
  /\ tool_execs = 0
  /\ hist0 = 0
  /\ trimmed = FALSE
  /\ round_log = <<>>
  /\ round_tools = <<>>
  /\ turn_text = None
  /\ AuxInit

ExecNames == {"get_current_datetime", "web_search", "stub", "date_time", "broken"}
RegIdle ==
  /\ exec_count = [n \in ExecNames |-> 0]
  /\ reg_last = [op |-> "none"]
  /\ reg_ops = 0

Init ==
  /\ LoopInit
  /\ max_history = MaxHistory
  /\ tools = _register_tools
  /\ RegIdle

Next ==
  \/ \E m \in InboundInputs : PublishInbound(m, MaxInbound)
  \/ Consume /\ UNCHANGED messages
  \/ \E r \in Responses : LLMReturn(r) /\ UNCHANGED messages
  \/ LLMRaise /\ UNCHANGED messages
  \/ \E how \in UNION {Outcomes(n) : n \in DOMAIN tools \cup {"date_time"}} :
       ToolReturn(how) /\ UNCHANGED messages

Spec == Init /\ [][Next]_vars

\* The agent loop under the scheduling of the event loop: run() takes a queued
\* message whenever it is waiting for one, and an awaited backend call or tool
\* execution ends, by returning or by raising.  The backend answers with a
\* text, with nothing at all, or with one call of the clock tool.
\* (the in-flight list is left out here)
LiveResponses ==
  { LLMResponse(Some(<<"Hello! How can I help?">>), <<>>),
    LLMResponse(None, <<>>),
    LLMResponse(None, <<CallClock>>) }
Takes == Consume /\ UNCHANGED messages
BackendAnswers ==
  /\ (\E r \in LiveResponses : LLMReturn(r)) \/ LLMRaise
  /\ UNCHANGED messages
ToolAnswers ==
  /\ \E how \in Outcomes(CallClock.name) : ToolReturn(how)
  /\ UNCHANGED messages

LiveNext ==
  \/ \E m \in InboundInputs : PublishInbound(m, MaxInbound)
  \/ Takes
  \/ \E r \in LiveResponses : LLMReturn(r) /\ UNCHANGED messages
  \/ LLMRaise /\ UNCHANGED messages
  \/ \E how \in Outcomes(CallClock.name) : ToolReturn(how) /\ UNCHANGED messages

LiveSpec ==
  /\ Init
  /\ [][LiveNext]_vars
  /\ WF_vars(Takes)
  /\ WF_vars(BackendAnswers)
  /\ WF_vars(ToolAnswers)

(***************************************************************************)
(* One turn on a fresh store with the default cap                          *)
(***************************************************************************)
TurnInit ==
  /\ LoopInit
  /\ max_history = DEFAULT_MAX_HISTORY
  /\ tools = _register_tools
  /\ RegIdle

TurnNext ==
  \/ \E m \in TurnInputs : PublishInbound(m, 1)
  \/ Consume /\ UNCHANGED messages
  \/ \E r \in Responses : LLMReturn(r) /\ UNCHANGED messages
  \/ LLMRaise /\ UNCHANGED messages
  \/ \E how \in UNION {Outcomes(n) : n \in DOMAIN tools \cup {"date_time"}} :
       ToolReturn(how) /\ UNCHANGED messages

TurnSpec == TurnInit /\ [][TurnNext]_vars

(***************************************************************************)
(* The tool registry on its own: register, unregister and execute calls    *)
(* on stub tools that count the calls of their execute entry point         *)
(***************************************************************************)
\* a stub with one property of every type the validator knows
StubTool ==
  Tool("stub",
       [type |-> "object",
        properties |->
          [s |-> [type |-> "string"],
           i |-> [type |-> "integer"],
           n |-> [type |-> "number", minimum |-> 0],
           b |-> [type |-> "boolean"],
           a |-> [type |-> "array", items |-> [type |-> "integer"]],
           o |-> [type |-> "object",
                  properties |-> [k |-> [type |-> "string"]],
                  required |-> <<"k">>]],
        required |-> <<"s">>])
\* another tool of the same name
StubTwin == Tool("stub", [type |-> "object", properties |-> <<>>, required |-> <<>>])

\* a tool whose schema is not an object schema: its validation raises
BrokenTool == Tool("broken", [type |-> "array", properties |-> <<>>, required |-> <<>>])

ToolBox == {DateTimeTool, WebSearchTool, StubTool, StubTwin, BrokenTool}

ArgSamples ==
  { PyDict(<<>>),
    PyDict(<<Item("s", PyStr("x"))>>),
    PyDict(<<Item("s", PyInt(3))>>),
    PyDict(<<Item("i", PyInt(3))>>),
    PyDict(<<Item("s", PyStr("x")), Item("i", PyStr("3"))>>),
    PyDict(<<Item("s", PyStr("x")), Item("i", PyBool(TRUE))>>),
    PyDict(<<Item("s", PyStr("x")), Item("n", PyInt(-1))>>),
    PyDict(<<Item("s", PyStr("x")), Item("b", PyInt(1))>>),
    PyDict(<<Item("s", PyStr("x")), Item("a", PyList(<<PyInt(1), PyStr("2")>>))>>),
    PyDict(<<Item("s", PyStr("x")), Item("o", PyDict(<<>>))>>),
    PyDict(<<Item("s", PyStr("x")), Item("extra", PyNone)>>),
    PyDict(<<Item("query", PyStr("tla")), Item("max_results", PyInt(5))>>),
    PyDict(<<Item("query", PyStr("")), Item("max_results", PyInt(11))>>),
    PyList(<<PyStr("x")>>) }

StubOutcomes == {Returns(<<"result">>), Raises("RuntimeError", <<"boom">>)}

RegistryOf(ts) == RegisterAll(EmptyRegistry, ts)

RegResult(op, name, params, raised, invoked, result) ==
  [op |-> op, name |-> name, params |-> params, raised |-> raised,
   invoked |-> invoked, result |-> result]

Register(tool) ==
  /\ reg_ops < MaxRegOps
  /\ LET r == register(tools, tool)
     IN /\ tools' = r.reg
        /\ reg_last' = RegResult("register", tool.name, PyNone, r.raised, FALSE, <<>>)
  /\ reg_ops' = reg_ops + 1
  /\ UNCHANGED <<exec_count, busVars, sessVars, loopVars, histVars, auxVars>>

Unregister(name) ==
  /\ reg_ops < MaxRegOps
  /\ tools' = unregister(tools, name)
  /\ reg_last' = RegResult("unregister", name, PyNone, FALSE, FALSE, <<>>)
  /\ reg_ops' = reg_ops + 1
  /\ UNCHANGED <<exec_count, busVars, sessVars, loopVars, histVars, auxVars>>

Execute(name, params, how) ==
  /\ reg_ops < MaxRegOps
  /\ LET r == execute(tools, name, params, how)
     IN /\ exec_count' = IF r.invoked THEN [exec_count EXCEPT ![name] = @ + 1]
                         ELSE exec_count
        /\ reg_last' = RegResult("execute", name, params, r.raised, r.invoked, r.result)
  /\ reg_ops' = reg_ops + 1
  /\ UNCHANGED <<tools, busVars, sessVars, loopVars, histVars, auxVars>>

RegInit ==
  /\ LoopInit
  /\ max_history = DEFAULT_MAX_HISTORY
  /\ tools \in {EmptyRegistry, RegistryOf(<<StubTool>>),
                RegistryOf(<<WebSearchTool, DateTimeTool>>),
                RegistryOf(<<StubTwin, WebSearchTool>>),
                RegistryOf(<<BrokenTool>>)}
  /\ exec_count = [n \in ExecNames |-> 0]
  /\ reg_last = RegResult("none", "", PyNone, FALSE, FALSE, <<>>)
  /\ reg_ops = 0

RegNext ==
  \/ \E tool \in ToolBox : Register(tool)
  \/ \E name \in ExecNames : Unregister(name)
  \/ \E name \in ExecNames, params \in ArgSamples, how \in StubOutcomes :
       Execute(name, params, how)

RegSpec == RegInit /\ [][RegNext]_vars

(***************************************************************************)
(* The session store on its own: add_message and clear calls of any role   *)
(* on two conversations, for every cap from 1 to MaxHistory                *)
(***************************************************************************)
Roles == {"user", "assistant", "system"}
\* the k-th call adds an entry with a content of its own
NumberedEntry(role, k) == Entry(role, Some(<<"m" \o ToString(k)>>), <<>>, "", "")

AddMessage(chat_id, role) ==
  /\ store_ops < MaxStoreOps
  /\ LET entry == NumberedEntry(role, store_ops + 1)
     IN /\ sessions' = add_message(sessions, max_history, chat_id, entry)
        /\ added' = [added EXCEPT ![chat_id] = Append(@, entry)]
  /\ store_ops' = store_ops + 1
  /\ store_last' = [op |-> "add", chat_id |-> chat_id]
  /\ UNCHANGED <<wiped, max_history, busVars, loopVars, regVars, histVars,
                 subVars, dispVars, restVars>>

Clear(chat_id) ==
  /\ store_ops < MaxStoreOps
  /\ sessions' = clear(sessions, chat_id)
  /\ added' = [added EXCEPT ![chat_id] = <<>>]
  /\ wiped' = [wiped EXCEPT ![chat_id] = @ \o get_history(sessions, chat_id)]
  /\ store_ops' = store_ops + 1
  /\ store_last' = [op |-> "clear", chat_id |-> chat_id]
  /\ UNCHANGED <<max_history, busVars, loopVars, regVars, histVars, subVars,
                 dispVars, restVars>>

StoreInit ==
  /\ LoopInit
  /\ max_history \in 1..MaxHistory
  /\ tools = _register_tools
  /\ RegIdle

StoreNext ==
  \/ \E c \in Chats, role \in Roles : AddMessage(c, role)
  \/ \E c \in Chats : Clear(c)

StoreSpec == StoreInit /\ [][StoreNext]_vars


(***************************************************************************)
(* The session store with the identity of its dict objects, its context    *)
(* builder (agents/context.py), and a caller that changes what it was      *)
(* handed                                                                  *)
(***************************************************************************)
\* the system_prompt arguments tried: absent, empty, and a prompt
PromptArgs == {None, Some(<<>>), Some(<<"Be brief.">>)}

\* AgentContextBuilder.__init__: self._system_prompt = system_prompt or SYSTEM_PROMPT
ContextPrompt(arg) == Some(OrElse(arg, SYSTEM_PROMPT))

\* the values of a list of objects
Deref(items, ob) == [i \in DOMAIN items |-> ob[items[i]]]
\* self._sessions.get(chat_id, [])
refs_get(rf, chat_id) == IF chat_id \in DOMAIN rf THEN rf[chat_id] ELSE <<>>
\* the value get_history(chat_id) returns
HistoryOf(rf, ob, chat_id) == Deref(refs_get(rf, chat_id), ob)

\* get_history: list(...) is a new list of the same dict objects
get_history_list(rf, chat_id) == refs_get(rf, chat_id)

\* _trim reads the role of each object of the list
Tagged(items, ob) ==
  [i \in DOMAIN items |-> [role |-> ob[items[i]].role, oid |-> items[i]]]
Oids(t) == [i \in DOMAIN t |-> t[i].oid]

\* add_message: a new dict, appended to the conversation's list, then _trim
add_message_obj(rf, ob, cap, chat_id, entry) ==
  LET ob1 == Append(ob, entry)
      lst == Append(refs_get(rf, chat_id), Len(ob1))
  IN [objs |-> ob1,
      refs |-> [c \in DOMAIN rf \cup {chat_id} |->
                  IF c = chat_id THEN Oids(trim(Tagged(lst, ob1), cap))
                  ELSE rf[c]]]

\* a faulty variant: the system message is put at the head of the session's
\* own list, which is returned
buildInPlace(rf, ob, prompt, chat_id) ==
  LET ob1 == Append(ob, SystemEntry(prompt))
      lst == <<Len(ob1)>> \o refs_get(rf, chat_id)
  IN [objs |-> ob1,
      refs |-> [c \in DOMAIN rf \cup {chat_id} |->
                  IF c = chat_id THEN lst ELSE rf[c]],
      items |-> lst]

\* build: a new list holding a new system dict, extended by get_history
build(rf, ob, prompt, chat_id) ==
  LET ob1 == Append(ob, SystemEntry(prompt))
  IN [objs |-> ob1, refs |-> rf,
      items |-> <<Len(ob1)>> \o get_history_list(rf, chat_id)]

CopyDone(op, chat_id) ==
  /\ copy_ops < MaxCopyOps
  /\ copy_ops' = copy_ops + 1
  /\ copy_last' = [op |-> op, chat_id |-> chat_id,
                   again |-> (copy_last.op = op /\ copy_last.chat_id = chat_id)]
  /\ UNCHANGED <<busVars, sessVars, loopVars, regVars, histVars, storeVars,
                 subVars, dispVars, tgVars, app>>

\* AgentContextBuilder(session_manager, system_prompt=arg)
NewContextBuilder(arg) ==
  /\ system_prompt = None
  /\ system_prompt' = ContextPrompt(arg)
  /\ CopyDone("new_builder", "")
  /\ UNCHANGED <<objs, refs, held>>

CopyAdd(chat_id, role) ==
  /\ LET r == add_message_obj(refs, objs, max_history, chat_id,
                              NumberedEntry(role, Len(objs) + 1))
     IN objs' = r.objs /\ refs' = r.refs
  /\ CopyDone("add_message", chat_id)
  /\ UNCHANGED <<held, system_prompt>>

\* clear: self._sessions.pop(chat_id, None)
CopyClear(chat_id) ==
  /\ refs' = [c \in DOMAIN refs \ {chat_id} |-> refs[c]]
  /\ CopyDone("clear", chat_id)
  /\ UNCHANGED <<objs, held, system_prompt>>

GetHistory(chat_id) ==
  /\ held' = [kind |-> "get_history", chat_id |-> chat_id,
              items |-> get_history_list(refs, chat_id)]
  /\ CopyDone("get_history", chat_id)
  /\ UNCHANGED <<objs, refs, system_prompt>>

Build(chat_id) ==
  /\ system_prompt # None
  /\ LET r == build(refs, objs, system_prompt.s, chat_id)
     IN /\ objs' = r.objs
        /\ refs' = r.refs
        /\ held' = [kind |-> "build", chat_id |-> chat_id, items |-> r.items]
  /\ CopyDone("build", chat_id)
  /\ UNCHANGED system_prompt

\* the caller appends a dict of its own to the list it holds, as the agent
\* loop does with the list build returned (messages.append)
CallerAppends ==
  /\ held.kind # "none"
  /\ objs' = Append(objs, Entry("assistant", Some(<<"mine">>), <<>>, "", ""))
  /\ held' = [held EXCEPT !.items = Append(@, Len(objs) + 1)]
  /\ CopyDone("caller_append", held.chat_id)
  /\ UNCHANGED <<refs, system_prompt>>

\* the caller removes the first element of the list it holds
CallerRemoves ==
  /\ held.kind # "none"
  /\ held.items # <<>>
  /\ held' = [held EXCEPT !.items = Tail(@)]
  /\ CopyDone("caller_remove", held.chat_id)
  /\ UNCHANGED <<objs, refs, system_prompt>>

\* the caller assigns to a field of the i-th entry of the list it holds:
\* held[i]["content"] = "edited"
CallerAlters(i) ==
  /\ held.kind # "none"
  /\ i \in DOMAIN held.items
  /\ objs' = [objs EXCEPT ![held.items[i]].content = Some(<<"edited">>)]
  /\ CopyDone("caller_alter", held.chat_id)
  /\ UNCHANGED <<refs, held, system_prompt>>

CopyInit ==
  /\ LoopInit
  /\ max_history = MaxHistory
  /\ tools = _register_tools
  /\ RegIdle

CopyNext ==
  \/ \E arg \in PromptArgs : NewContextBuilder(arg)
  \/ \E c \in Chats, role \in Roles : CopyAdd(c, role)
  \/ \E c \in Chats : CopyClear(c)
  \/ \E c \in Chats : GetHistory(c)
  \/ \E c \in Chats : Build(c)
  \/ CallerAppends
  \/ CallerRemoves
  \/ \E i \in 1..(MaxCopyOps + 1) : CallerAlters(i)

CopySpec == CopyInit /\ [][CopyNext]_vars


(***************************************************************************)
(* SubAgentTool.execute (tools/sub_agent.py): the nested loop, run through *)
(* the registry the agent loop uses.  Its message thread is local to the   *)
(* call and only feeds the backend, whose answers are arbitrary here.      *)
(***************************************************************************)
SubNoOutput == <<"Sub-agent completed but produced no output.">>
SubLimitText == <<"Sub-agent reached its iteration limit without a final answer.">>
SubTaskRequired == <<"Error: 'task' parameter is required.">>

\* kwargs.get(key, "").strip(): the text tokens of a string argument
KwargText(args, key) ==
  IF \E i \in DOMAIN args.v : args.v[i].k = key
  THEN LET i == CHOOSE i \in DOMAIN args.v : args.v[i].k = key
       IN Strip(<<args.v[i].val.v>>)
  ELSE <<>>

\* the tool definitions handed to the nested backend: all but this tool
tool_defs(reg) == DOMAIN reg \ {"sub_agent"}

CallSub ==
  ToolCall("call_5", "sub_agent", PyDict(<<Item("task", PyStr("dig deeper"))>>))
CallSubBlank ==
  ToolCall("call_6", "sub_agent", PyDict(<<Item("task", PyStr(" "))>>))
SubArgs == {CallSub.arguments, CallSubBlank.arguments, PyDict(<<>>)}

\* what the nested backend may answer
SubResponses ==
  { LLMResponse(Some(<<"Done.">>), <<>>),
    LLMResponse(None, <<>>),
    LLMResponse(None, <<CallClock>>),
    LLMResponse(Some(<<"Delegating.">>), <<CallSub>>),
    LLMResponse(None, <<CallSubBlank, CallUnknown>>) }

\* one execution in progress: its arguments, loop variable, last response,
\* position in the response's tool calls, and backend calls made so far
Frame(args) ==
  [args |-> args, iteration |-> 0, pc |-> "llm", resp |-> NoResponse, idx |-> 0,
   calls |-> 1]
Top(stack) == stack[Len(stack)]
Below(stack) == SubSeq(stack, 1, Len(stack) - 1)
SetTop(stack, f) == Append(Below(stack), f)

\* a faulty variant: one nested round more than the budget
SubMoreIterationsOffByOne(i) == i + 1 <= MAX_SUB_AGENT_ITERATIONS

\* for iteration in range(MAX_SUB_AGENT_ITERATIONS)
SubMoreIterations(i) == i + 1 < MAX_SUB_AGENT_ITERATIONS

\* registry.execute("sub_agent", args) runs the tool's execute to its first
\* backend call: validation passed and the task is not blank
SubStarts(reg, args) ==
  /\ "sub_agent" \in DOMAIN reg
  /\ validate_params(reg["sub_agent"].parameters, args).valid
  /\ KwargText(args, "task") # <<>>

\* the top execution ends (how: what the tool's execute returned or raised);
\* the registry call that ran it returns to the loop one level up, which goes
\* on with its next tool call, its next backend call, or ends in turn
RECURSIVE Finish(_, _, _, _)
Advance(stack, rets) ==
  LET f == Top(stack)
  IN IF f.idx < Len(f.resp.tool_calls)
     THEN [frames |-> SetTop(stack, [f EXCEPT !.idx = @ + 1]), rets |-> rets]
     ELSE IF SubMoreIterations(f.iteration)
     THEN [frames |-> SetTop(stack, [f EXCEPT !.iteration = @ + 1, !.pc = "llm",
                                              !.calls = @ + 1]),
           rets |-> rets]
     ELSE Finish(stack, Returns(OrElse(f.resp.content, SubLimitText)), "limit", rets)
Finish(stack, how, exit, rets) ==
  LET f == Top(stack)
      rec == [depth |-> Len(stack), calls |-> f.calls, exit |-> exit,
              last |-> f.resp,
              text |-> execute(tools, "sub_agent", f.args, how).result]
  IN IF Below(stack) = <<>>
     THEN [frames |-> <<>>, rets |-> Append(rets, rec)]
     ELSE Advance(Below(stack), Append(rets, rec))

\* the agent loop's registry call executes the sub-agent tool
SubSpawn(args) ==
  /\ frames = <<>>
  /\ sub_runs < MaxSubRuns
  /\ sub_runs' = sub_runs + 1
  /\ IF SubStarts(tools, args)
     THEN /\ frames' = <<Frame(args)>>
          /\ sub_rets' = <<>>
     ELSE /\ frames' = <<>>
          /\ sub_rets' = <<[depth |-> 1, calls |-> 0, exit |-> "rejected",
                            last |-> NoResponse,
                            text |-> execute(tools, "sub_agent", args,
                                             Returns(SubTaskRequired)).result]>>
  /\ UNCHANGED <<busVars, sessVars, loopVars, regVars, histVars, storeVars, dispVars,
                 restVars>>

\* the nested backend call returns r
SubLLMReturn(r) ==
  /\ frames # <<>>
  /\ Top(frames).pc = "llm"
  /\ LET f == [Top(frames) EXCEPT !.resp = r]
         after == IF ~has_tool_calls(r)
                  THEN Finish(SetTop(frames, f),
                              Returns(OrElse(r.content, SubNoOutput)), "answer", <<>>)
                  ELSE [frames |-> SetTop(frames, [f EXCEPT !.pc = "tool", !.idx = 1]),
                        rets |-> <<>>]
     IN /\ frames' = after.frames
        /\ sub_rets' = after.rets
  /\ UNCHANGED <<sub_runs, busVars, sessVars, loopVars, regVars, histVars,
                 storeVars, dispVars, restVars>>

\* the nested backend call raises: the exception leaves the tool's execute and
\* the registry call that ran it returns the error text
SubLLMRaise ==
  /\ frames # <<>>
  /\ Top(frames).pc = "llm"
  /\ LET after == Finish(frames, Raises("RuntimeError", <<"backend down">>),
                         "raised", <<>>)
     IN /\ frames' = after.frames
        /\ sub_rets' = after.rets
  /\ UNCHANGED <<sub_runs, busVars, sessVars, loopVars, regVars, histVars,
                 storeVars, dispVars, restVars>>

\* the nested loop's registry call runs the sub-agent tool again
SubNest ==
  /\ frames # <<>>
  /\ Len(frames) < MaxSubDepth
  /\ Top(frames).pc = "tool"
  /\ LET tc == Top(frames).resp.tool_calls[Top(frames).idx]
     IN /\ tc.name = "sub_agent"
        /\ SubStarts(tools, tc.arguments)
        /\ frames' = Append(frames, Frame(tc.arguments))
  /\ sub_rets' = <<>>
  /\ UNCHANGED <<sub_runs, busVars, sessVars, loopVars, regVars, histVars,
                 storeVars, dispVars, restVars>>

\* the nested loop's registry call of any other tool, or of a sub-agent call
\* that does not reach its backend, returns
SubToolReturn(how) ==
  /\ frames # <<>>
  /\ Top(frames).pc = "tool"
  /\ LET tc == Top(frames).resp.tool_calls[Top(frames).idx]
         after == Advance(frames, <<>>)
     IN /\ ~(tc.name = "sub_agent" /\ SubStarts(tools, tc.arguments))
        /\ how \in (IF tc.name = "sub_agent" THEN {Returns(SubTaskRequired)}
                    ELSE Outcomes(tc.name))
        /\ frames' = after.frames
        /\ sub_rets' = after.rets
  /\ UNCHANGED <<sub_runs, busVars, sessVars, loopVars, regVars, histVars,
                 storeVars, dispVars, restVars>>

SubInit ==
  /\ LoopInit
  /\ max_history = DEFAULT_MAX_HISTORY
  /\ tools = _register_tools
  /\ RegIdle

SubNext ==
  \/ \E args \in SubArgs : SubSpawn(args)
  \/ \E r \in SubResponses : SubLLMReturn(r)
  \/ SubLLMRaise
  \/ SubNest
  \/ \E how \in UNION {Outcomes(n) : n \in DOMAIN tools \cup {"date_time"}}
                \cup {Returns(SubTaskRequired)} : SubToolReturn(how)

SubSpec == SubInit /\ [][SubNext]_vars


(***************************************************************************)
(* MessageBus.dispatch_outbound and subscribe_outbound                     *)
(***************************************************************************)
Channels == {"telegram", "discord"}

\* a faulty variant: the callbacks of every channel
subscribersAllChannels(subs, channel) ==
  (IF "telegram" \in DOMAIN subs THEN subs["telegram"] ELSE <<>>)
  \o (IF "discord" \in DOMAIN subs THEN subs["discord"] ELSE <<>>)

\* self._outbound_subscribers.get(msg.channel, [])
subscribers_get(subs, channel) ==
  IF channel \in DOMAIN subs THEN subs[channel] ELSE <<>>

\* publish_outbound, called by whoever has a reply for a channel
PublishOutbound(channel) ==
  /\ sent < MaxOutbound
  /\ outbound' = put(outbound,
                     [channel |-> channel,
                      content |-> <<"reply " \o ToString(sent + 1)>>,
                      recipient_id |-> "7", chat_id |-> "42", media |-> <<>>])
  /\ sent' = sent + 1
  /\ UNCHANGED <<inbound, sessVars, loopVars, regVars, histVars, storeVars,
                 subVars, restVars, subscribers, disp, cb_calls, dequeued,
                 subs_made, cb_outcomes, stop_at>>

\* subscribe_outbound: each call registers a callback of its own
Subscribe(channel) ==
  /\ subs_made < MaxSubs
  /\ LET callback == "cb" \o ToString(subs_made + 1)
     IN subscribers' =
          [c \in DOMAIN subscribers \cup {channel} |->
             IF c = channel THEN Append(subscribers_get(subscribers, channel), callback)
             ELSE subscribers[c]]
  /\ subs_made' = subs_made + 1
  /\ UNCHANGED <<busVars, sessVars, loopVars, regVars, histVars, storeVars,
                 subVars, restVars, disp, cb_calls, dequeued, sent, cb_outcomes,
                 stop_at>>

\* while self._running: after a message (or a timeout) the loop goes back to
\* outbound.get or ends
LoopAgain(d) ==
  [pc |-> IF d.running THEN "wait" ELSE "stopped", m |-> NoOutbound, k |-> 0,
   running |-> d.running]

\* outbound.get returns m: the loop looks the channel's list up and awaits its
\* first callback, or, without subscribers, goes round again
DispatchGet ==
  /\ disp.pc = "wait"
  /\ outbound # <<>>
  /\ LET m == Head(outbound)
         subs == subscribers_get(subscribers, m.channel)
     IN /\ outbound' = Tail(outbound)
        /\ dequeued' = Append(dequeued, m)
        /\ IF subs # <<>>
           THEN /\ cb_calls' = Append(cb_calls, [cb |-> subs[1], m |-> m])
                /\ disp' = [disp EXCEPT !.pc = "call", !.m = m, !.k = 1]
           ELSE /\ disp' = LoopAgain(disp)
                /\ UNCHANGED cb_calls
  /\ UNCHANGED <<inbound, sessVars, loopVars, regVars, histVars, storeVars,
                 subVars, restVars, subscribers, sent, subs_made, cb_outcomes,
                 stop_at>>

\* a faulty variant: a callback that raised is called again
NextCallbackRetry(k, raised) == IF raised THEN k ELSE k + 1

\* for callback in subs: try: await callback(msg) / except Exception: logged.
\* Whether the callback returned or raised, the for loop takes the next one.
NextCallback(k, raised) == k + 1

\* the awaited callback returns, or raises and is logged: the for loop goes on
\* with the next callback of the list as it is now
CallbackDone(raised) ==
  /\ disp.pc = "call"
  /\ cb_outcomes' = Append(cb_outcomes, raised)
  /\ LET subs == subscribers_get(subscribers, disp.m.channel)
         n == NextCallback(disp.k, raised)
     IN IF n <= Len(subs)
        THEN /\ cb_calls' = Append(cb_calls, [cb |-> subs[n], m |-> disp.m])
             /\ disp' = [disp EXCEPT !.k = n]
        ELSE /\ disp' = LoopAgain(disp)
             /\ UNCHANGED cb_calls
  /\ UNCHANGED <<busVars, sessVars, loopVars, regVars, histVars, storeVars,
                 subVars, restVars, subscribers, dequeued, sent, subs_made,
                 stop_at>>

\* the first step of the dispatch task: self._running = True, then the while
\* test and outbound.get
DispatchStart ==
  /\ disp.pc = "new"
  /\ disp' = [disp EXCEPT !.pc = "wait", !.running = TRUE]
  /\ UNCHANGED <<busVars, sessVars, loopVars, regVars, histVars, storeVars,
                 subVars, restVars, subscribers, cb_calls, dequeued, sent,
                 subs_made, cb_outcomes, stop_at>>

\* stop(): self._running = False.  It is called once in a run.
Stop ==
  /\ stop_at = -1
  /\ disp' = [disp EXCEPT !.running = FALSE]
  /\ stop_at' = Len(dequeued)
  /\ UNCHANGED <<busVars, sessVars, loopVars, regVars, histVars, storeVars,
                 subVars, restVars, subscribers, cb_calls, dequeued, sent,
                 subs_made, cb_outcomes>>

\* wait_for(outbound.get(), timeout=1.0) times out after stop(): the loop ends
TimeoutStopped ==
  /\ disp.pc = "wait"
  /\ ~disp.running
  /\ outbound = <<>>
  /\ disp' = LoopAgain(disp)
  /\ UNCHANGED <<busVars, sessVars, loopVars, regVars, histVars, storeVars,
                 subVars, restVars, subscribers, cb_calls, dequeued, sent,
                 subs_made, cb_outcomes, stop_at>>

DispInit ==
  /\ LoopInit
  /\ max_history = DEFAULT_MAX_HISTORY
  /\ tools = _register_tools
  /\ RegIdle

DispNext ==
  \/ \E c \in Channels : PublishOutbound(c)
  \/ \E c \in Channels : Subscribe(c)
  \/ DispatchStart
  \/ DispatchGet
  \/ \E raised \in BOOLEAN : CallbackDone(raised)
  \/ Stop
  \/ TimeoutStopped

DispSpec == DispInit /\ [][DispNext]_vars


(***************************************************************************)
(* TelegramChannelHandler (handler/channels/telegram.py): connect,         *)
(* disconnect and send_message called in any order                         *)
(***************************************************************************)
\* where connect() can fail: building the Application, or one of the awaited
\* start-up calls
ConnectFailures == {"none", "build", "initialize", "start", "start_polling"}
HANDLERS_ADDED == 4

TgResult(t, env, entry) == [t |-> t, env |-> env, entry |-> entry]

\* a faulty variant: connect() builds and starts whatever the state
connectRebuilds(t, env, fails) ==
  LET id == Len(env.handlers) + 1
      env1 == [env EXCEPT !.handlers = Append(@, HANDLERS_ADDED)]
  IN TgResult([running |-> TRUE, app |-> id, bot |-> id], env1,
              [op |-> "connect", raised |-> "", noop |-> FALSE])

\* connect(): nothing when already running; otherwise a new Application, its
\* bot, four handlers, the start-up calls, and only then _running = True
connect(t, env, fails) ==
  IF t.running
  THEN TgResult(t, env, [op |-> "connect", raised |-> "", noop |-> TRUE])
  ELSE IF fails = "build"
  THEN TgResult(t, env, [op |-> "connect", raised |-> fails, noop |-> FALSE])
  ELSE LET id == Len(env.handlers) + 1
           t1 == [t EXCEPT !.app = id, !.bot = id]
           env1 == [env EXCEPT !.handlers = Append(@, HANDLERS_ADDED)]
       IN IF fails # "none"
          THEN TgResult(t1, env1, [op |-> "connect", raised |-> fails, noop |-> FALSE])
          ELSE TgResult([t1 EXCEPT !.running = TRUE], env1,
                        [op |-> "connect", raised |-> "", noop |-> FALSE])

\* a faulty variant: _running is cleared only when the shutdown calls return
disconnectNoFinally(t, env, shutdown_raises) ==
  IF ~t.running \/ t.app = 0
  THEN TgResult(t, env, [op |-> "disconnect", logged |-> FALSE, noop |-> TRUE])
  ELSE TgResult([t EXCEPT !.running = shutdown_raises],
                [env EXCEPT !.shutdowns = Append(@, t.app)],
                [op |-> "disconnect", logged |-> shutdown_raises, noop |-> FALSE])

\* disconnect(): nothing unless running with an Application; otherwise the
\* shutdown calls, an exception of theirs logged, and finally _running = False
disconnect(t, env, shutdown_raises) ==
  IF ~t.running \/ t.app = 0
  THEN TgResult(t, env, [op |-> "disconnect", logged |-> FALSE, noop |-> TRUE])
  ELSE TgResult([t EXCEPT !.running = FALSE],
                [env EXCEPT !.shutdowns = Append(@, t.app)],
                [op |-> "disconnect", logged |-> shutdown_raises, noop |-> FALSE])

\* send_message(message): RuntimeError when _bot is None, otherwise the bot's
\* send_message, whose own failure leaves the method
send_message(t, env, message, bot_raises) ==
  IF t.bot = 0
  THEN TgResult(t, env, [op |-> "send_message", raised |-> "RuntimeError",
                         sent |-> FALSE, running |-> t.running])
  ELSE TgResult(t,
                [env EXCEPT !.sends = Append(@, [bot |-> t.bot,
                                                 chat_id |-> message.chat_id,
                                                 text |-> message.content])],
                [op |-> "send_message",
                 raised |-> IF bot_raises THEN "TelegramError" ELSE "",
                 sent |-> TRUE, running |-> t.running])

TgApply(r) ==
  /\ Len(tg_log) < MaxTgOps
  /\ tg' = r.t
  /\ tg_env' = r.env
  /\ tg_log' = Append(tg_log, r.entry)
  /\ UNCHANGED <<busVars, sessVars, loopVars, regVars, histVars, storeVars,
                 subVars, dispVars, callerVars, app>>

TgConnect(fails) == TgApply(connect(tg, tg_env, fails))
TgDisconnect(shutdown_raises) == TgApply(disconnect(tg, tg_env, shutdown_raises))
TgSend(bot_raises) ==
  TgApply(send_message(tg, tg_env, OutboundFor(NoMessage, <<"hello">>), bot_raises))

TgInit ==
  /\ LoopInit
  /\ max_history = DEFAULT_MAX_HISTORY
  /\ tools = _register_tools
  /\ RegIdle

TgNext ==
  \/ \E fails \in ConnectFailures : TgConnect(fails)
  \/ \E shutdown_raises \in BOOLEAN : TgDisconnect(shutdown_raises)
  \/ \E bot_raises \in BOOLEAN : TgSend(bot_raises)

TgSpec == TgInit /\ [][TgNext]_vars


(***************************************************************************)
(* Application.start (app.py): the handler is started, the agent loop and  *)
(* the dispatcher run side by side, and on the shutdown signal the agent   *)
(* task is cancelled and then CommunicationHandler.stop is called          *)
(***************************************************************************)
\* the key the configuration gives its one enabled telegram channel: the
\* keys of AppConfig.channels are free, "telegram" is one of them
ConfigNames == {"telegram", "tg_main"}

\* CommunicationHandler.start: the channel is connected and its send_message
\* subscribed under the channel's key in the configuration, then the dispatch
\* task is created
HandlerStart(name) ==
  /\ app = "init"
  /\ LET r == connect(tg, tg_env, "none")
     IN /\ tg' = r.t
        /\ tg_env' = r.env
        /\ tg_log' = Append(tg_log, r.entry)
  /\ subscribers' =
       [c \in DOMAIN subscribers \cup {name} |->
          IF c = name
          THEN Append(subscribers_get(subscribers, name), "send_message")
          ELSE subscribers[c]]
  /\ subs_made' = subs_made + 1
  /\ app' = "running"
  /\ UNCHANGED <<busVars, sessVars, loopVars, regVars, histVars, storeVars,
                 subVars, callerVars, disp, cb_calls, dequeued, sent,
                 cb_outcomes, stop_at>>

\* the shutdown signal: agent_task.cancel() and await agent_task.  The
\* CancelledError is raised at the await the agent loop is suspended at and,
\* not being an Exception, ends run().
AgentCancel ==
  /\ app = "running"
  /\ pc' = "cancelled"
  /\ app' = "agent_cancelled"
  /\ UNCHANGED <<busVars, sessVars, msg, iteration, llm_response, tc_idx,
                 inflight, messages, regVars, histVars, storeVars, subVars,
                 dispVars, callerVars, tgVars>>

\* CommunicationHandler.stop: message_bus.stop(), the dispatch task cancelled
\* where it is suspended (in outbound.get or in a callback, or before its
\* first step), then the channel disconnected
HandlerStop(shutdown_raises) ==
  /\ app = "agent_cancelled"
  /\ disp' = [disp EXCEPT !.pc = "cancelled", !.running = FALSE]
  /\ stop_at' = Len(dequeued)
  /\ LET r == disconnect(tg, tg_env, shutdown_raises)
     IN /\ tg' = r.t
        /\ tg_env' = r.env
        /\ tg_log' = Append(tg_log, r.entry)
  /\ app' = "stopped"
  /\ UNCHANGED <<busVars, sessVars, loopVars, regVars, histVars, storeVars,
                 subVars, callerVars, subscribers, cb_calls, dequeued, sent,
                 subs_made, cb_outcomes>>

\* the backend's answers here: a text, or one call of the clock tool
AppResponses ==
  { LLMResponse(Some(<<"Hello! How can I help?">>), <<>>),
    LLMResponse(None, <<CallClock>>) }

AppNext ==
  \/ \E name \in ConfigNames : HandlerStart(name)
  \/ /\ app = "running"
     /\ \/ \E m \in InboundInputs : PublishInbound(m, MaxInbound)
        \/ Consume /\ UNCHANGED messages
        \/ \E r \in AppResponses : LLMReturn(r) /\ UNCHANGED messages
        \/ LLMRaise /\ UNCHANGED messages
        \/ \E how \in Outcomes(CallClock.name) : ToolReturn(how) /\ UNCHANGED messages
  \/ /\ app \in {"running", "agent_cancelled"}
     /\ \/ DispatchStart
        \/ DispatchGet
        \/ \E raised \in BOOLEAN : CallbackDone(raised)
  \/ AgentCancel
  \/ \E shutdown_raises \in BOOLEAN : HandlerStop(shutdown_raises)

AppSpec == Init /\ [][AppNext]_vars


(***************************************************************************)
(* One turn of the agent loop with its in-flight message list kept: the    *)
(* list context_builder.build returned and the entries _process_message    *)
(* appends to it, next to the session the same entries are added to        *)
(***************************************************************************)
\* messages = self.context_builder.build(msg.chat_id), after the user entry
\* was added to the session; the clear command returns before it
ConsumeBuild ==
  /\ Consume
  /\ messages' = (IF IsClear(msg') THEN <<>>
                  ELSE context_build(sessions', msg'.chat_id))

\* messages.append(assistant_msg) when the response carries tool calls; with
\* a final answer _process_message returns and the list is gone
LLMReturnAppend(r) ==
  /\ LLMReturn(r)
  /\ messages' = (IF has_tool_calls(r) THEN Append(messages, AssistantMsg(r))
                  ELSE <<>>)

\* the exception leaves _process_message: the list is gone
LLMRaiseDrop ==
  /\ LLMRaise
  /\ messages' = <<>>

\* messages.append(tool_msg) with the result of the call at tc_idx, as long as
\* the turn goes on
ToolReturnAppend(how) ==
  /\ ToolReturn(how)
  /\ LET calls == llm_response.tool_calls
         tc == calls[tc_idx]
         r == execute(tools, tc.name, tc.arguments, how)
     IN messages' = (IF pc' \in {"llm", "tool"}
                     THEN Append(messages, ToolEntryFor(calls, tc_idx, r.result))
                     ELSE <<>>)

\* the backend's answers: a text, or a call of the clock tool with no text or
\* with an empty one
CtxResponses ==
  { LLMResponse(Some(<<"Hello! How can I help?">>), <<>>),
    LLMResponse(None, <<CallClock>>),
    LLMResponse(Some(<<>>), <<CallClock>>) }

\* the cap of the application, or a cap a turn exceeds
CtxInit ==
  /\ LoopInit
  /\ max_history \in {MaxHistory, DEFAULT_MAX_HISTORY}
  /\ tools = _register_tools
  /\ RegIdle

CtxNext ==
  \/ \E m \in InboundInputs : PublishInbound(m, 1)
  \/ ConsumeBuild
  \/ \E r \in CtxResponses : LLMReturnAppend(r)
  \/ LLMRaiseDrop
  \/ \E how \in Outcomes(CallClock.name) : ToolReturnAppend(how)

CtxSpec == CtxInit /\ [][CtxNext]_vars


(***************************************************************************)
(* One turn of the agent loop whose backend asks for the sub-agent tool:   *)
(* the loop's registry call runs SubAgentTool.execute, the nested loop     *)
(* runs while the turn is suspended in that call, and the call returns     *)
(* what the registry made of the nested loop's end                         *)
(***************************************************************************)
\* the parent backend's answers: a text, a call of the clock tool, a call of
\* the sub-agent tool
NestResponses ==
  { LLMResponse(Some(<<"Hello! How can I help?">>), <<>>),
    LLMResponse(None, <<CallClock>>),
    LLMResponse(Some(<<"Delegating.">>), <<CallSub>>) }
\* the nested backend's answers: a text, nothing, a call of the clock tool
NestedResponses ==
  { LLMResponse(Some(<<"Done.">>), <<>>),
    LLMResponse(None, <<>>),
    LLMResponse(None, <<CallClock>>) }

\* the turn is suspended in tool_registry.execute for a sub_agent call
AtSubAgentCall ==
  /\ pc = "tool"
  /\ llm_response.tool_calls[tc_idx].name = "sub_agent"
IsSubAgentEntry(e) == e.role = "tool" /\ e.name = "sub_agent"
\* the sub_agent calls of the turn whose result the loop has recorded
SubAgentResults ==
  Len(SelectSeq(get_history(sessions, msg.chat_id), IsSubAgentEntry))

\* await self.tool_registry.execute("sub_agent", tc.arguments) begins
NestSpawn ==
  /\ AtSubAgentCall
  /\ sub_runs = SubAgentResults
  /\ SubSpawn(llm_response.tool_calls[tc_idx].arguments)

\* the registry call returns to the loop: the nested loop's final text, or the
\* error text the registry makes of the exception that left the tool's execute
NestToolReturn ==
  /\ AtSubAgentCall
  /\ frames = <<>>
  /\ sub_runs = SubAgentResults + 1
  /\ LET rec == sub_rets[Len(sub_rets)]
         how == IF rec.exit = "raised"
                THEN Raises("RuntimeError", <<"backend down">>)
                ELSE Returns(rec.text)
     IN ToolReturn(how)
  /\ UNCHANGED messages

NestInit ==
  /\ LoopInit
  /\ max_history = DEFAULT_MAX_HISTORY
  /\ tools = _register_tools
  /\ RegIdle

NestNext ==
  \/ \E m \in InboundInputs : PublishInbound(m, 1)
  \/ Consume /\ UNCHANGED messages
  \/ \E r \in NestResponses : LLMReturn(r) /\ UNCHANGED messages
  \/ LLMRaise /\ UNCHANGED messages
  \/ \E how \in Outcomes(CallClock.name) :
       ~AtSubAgentCall /\ ToolReturn(how) /\ UNCHANGED messages
  \/ NestSpawn
  \/ \E r \in NestedResponses : SubLLMReturn(r)
  \/ SubLLMRaise
  \/ \E how \in Outcomes(CallClock.name) : SubToolReturn(how)
  \/ NestToolReturn

NestSpec == NestInit /\ [][NestNext]_vars


(***************************************************************************)
(* Properties                                                              *)
(***************************************************************************)
IsReplyEv(e) == e.ev = "reply"
IsConsumeEv(e) == e.ev = "consume"
Replies == SelectSeq(turnlog, IsReplyEv)
EventsOf(n, kind) == {i \in DOMAIN turnlog : turnlog[i].ev = kind /\ turnlog[i].n = n}
LastEvent == turnlog[Len(turnlog)]
LastOutbound == outbound[Len(outbound)]
\* the turn of msg has completed with a reply, and no later turn has begun
TurnReplied ==
  /\ turnlog # <<>>
  /\ LastEvent.ev = "reply"
  /\ LastEvent.n = msg.timestamp
History == get_history(sessions, msg.chat_id)
\* what the conversation gained in the current turn (while nothing was trimmed)
Gained == SubSeq(History, hist0 + 1, Len(History))

\* C1: a turn calls the backend at most MAX_TOOL_ITERATIONS times; a turn in
\* which every response carried tool calls ends after exactly that many calls
\* with exactly one outbound message, whose content is not empty, and the loop
\* is back at consume_inbound: no further backend call is pending.
C1_BudgetBound ==
  /\ llm_calls <= MAX_TOOL_ITERATIONS
  /\ (TurnReplied /\ ~IsClear(msg) /\ has_tool_calls(llm_response)) =>
       /\ llm_calls = MAX_TOOL_ITERATIONS
       /\ Cardinality(EventsOf(msg.timestamp, "reply")) = 1
       /\ Len(outbound) = Len(Replies)
       /\ LastOutbound.content # <<>>
       /\ pc = "idle"
  /\ (pc \in {"llm", "tool"} /\ llm_calls = MAX_TOOL_ITERATIONS /\ turnlog # <<>>) =>
       EventsOf(msg.timestamp, "reply") = {}

C1_Witness ==
  /\ TurnReplied
  /\ has_tool_calls(llm_response)
  /\ llm_calls = MAX_TOOL_ITERATIONS
  /\ LastOutbound.content = LimitMessage

\* C2: every tool entry of a stored history carries the id of a tool call
\* listed in an assistant entry that precedes it in the same history.
C2_ToolEntriesMatched ==
  \A c \in DOMAIN sessions :
    \A i \in DOMAIN sessions[c] :
      sessions[c][i].role = "tool" =>
        \E j \in 1..(i - 1) :
          /\ sessions[c][j].role = "assistant"
          /\ \E k \in DOMAIN sessions[c][j].tool_calls :
               sessions[c][j].tool_calls[k].id = sessions[c][i].tool_call_id

\* the entries of one turn after the user entry: rounds of one assistant entry
\* with n tool calls followed by n tool entries, then one assistant entry
\* without tool calls
RECURSIVE RoundsThenAnswer(_)
RoundsThenAnswer(es) ==
  IF es = <<>> THEN FALSE
  ELSE LET a == Head(es)
           n == Len(a.tool_calls)
       IN /\ a.role = "assistant"
          /\ IF n = 0 THEN Tail(es) = <<>>
             ELSE /\ Len(es) > n + 1
                  /\ \A j \in 2..(n + 1) : es[j].role = "tool"
                  /\ RoundsThenAnswer(SubSeq(es, n + 2, Len(es)))
IsAssistant(e) == e.role = "assistant"

\* C3: a non-command turn that trims nothing and ends with a response
\* without tool calls after k tool-call responses made k+1 backend calls, the
\* conversation gained the user entry, then per round one assistant entry and
\* its n tool entries, then the final assistant entry, and the outbound content
\* is the final response's text, or the fixed fallback when that is empty.
C3_TurnShape ==
  (TurnReplied /\ ~IsClear(msg) /\ ~trimmed /\ ~has_tool_calls(llm_response)) =>
     /\ llm_calls <= MAX_TOOL_ITERATIONS
     /\ Len(Gained) >= 2
     /\ Gained[1].role = "user"
     /\ Gained[1].tool_calls = <<>>
     /\ RoundsThenAnswer(Tail(Gained))
     /\ Len(SelectSeq(Gained, IsAssistant)) = llm_calls
     /\ Gained[Len(Gained)].content = Some(LastOutbound.content)
     /\ LastOutbound.content =
          IF llm_response.content.some /\ llm_response.content.s # <<>>
          THEN llm_response.content.s
          ELSE <<"I'm not sure how to respond to that.">>

\* nine tool rounds (of one and of three calls) and then an empty answer
C3_Witness ==
  /\ TurnReplied /\ ~IsClear(msg) /\ ~trimmed /\ ~has_tool_calls(llm_response)
  /\ llm_calls = MAX_TOOL_ITERATIONS
  /\ Len(Gained) > 2 * MAX_TOOL_ITERATIONS + 2
  /\ Len(Gained) < 4 * MAX_TOOL_ITERATIONS - 2
  /\ ~llm_response.content.some

\* C4: a clear command removes the conversation's session (the id is no
\* longer stored, get_history is empty), records no user entry, makes no
\* backend call and no tool execution, and publishes exactly one outbound
\* message holding the fixed acknowledgement.
C4_ClearCommand ==
  (TurnReplied /\ IsClear(msg)) =>
     /\ msg.chat_id \notin DOMAIN sessions
     /\ get_history(sessions, msg.chat_id) = <<>>
     /\ llm_calls = 0
     /\ tool_execs = 0
     /\ pc = "idle"
     /\ Cardinality(EventsOf(msg.timestamp, "reply")) = 1
     /\ Len(outbound) = Len(Replies)
     /\ LastOutbound.content = <<"Conversation history cleared. Let's start fresh!">>
     /\ LastOutbound.chat_id = msg.chat_id

\* a clear command on a conversation that had history
C4_Witness ==
  /\ TurnReplied /\ IsClear(msg)
  /\ Len(turnlog) = 4
  /\ turnlog[2].ev = "reply"
  /\ published[1].chat_id = msg.chat_id
  /\ ~IsClear(published[1])

\* C5: when the backend raises, the run loop does not end: the turn is
\* abandoned without an outbound message, the loop is back at consume_inbound,
\* and what follows an abandoned turn in the log is the next message's turn.
C5_BackendFailure ==
  /\ pc # "crashed"
  /\ Len(outbound) = Len(Replies)
  /\ \A i \in DOMAIN turnlog :
       turnlog[i].ev = "abandon" =>
         /\ EventsOf(turnlog[i].n, "reply") = {}
         /\ (i = Len(turnlog) => pc = "idle")
         /\ (i < Len(turnlog) => /\ turnlog[i + 1].ev = "consume"
                                 /\ turnlog[i + 1].n = turnlog[i].n + 1)

\* the first turn was abandoned, the second message got its reply
C5_Witness ==
  /\ Len(turnlog) = 4
  /\ turnlog[2].ev = "abandon"
  /\ turnlog[4].ev = "reply"
  /\ turnlog[4].n = 2
  /\ ~IsClear(msg)
  /\ Len(outbound) = 1

\* n was consumed and its processing ended without an exception
Completed(n) ==
  /\ EventsOf(n, "consume") # {}
  /\ EventsOf(n, "abandon") = {}
  /\ ~(pc \in {"llm", "tool"} /\ msg.timestamp = n)

\* C6: every inbound message whose processing completed without an exception
\* has exactly one outbound message, addressed to its channel, sender and
\* chat; and the outbound queue holds nothing else.
C6_OneReplyPerTurn ==
  /\ Len(outbound) = Len(Replies)
  /\ \A n \in DOMAIN published :
       /\ Cardinality(EventsOf(n, "reply")) = (IF Completed(n) THEN 1 ELSE 0)
  /\ \A i \in DOMAIN outbound :
       LET original == published[Replies[i].n]
       IN /\ outbound[i].channel = original.channel
          /\ outbound[i].recipient_id = original.sender_id
          /\ outbound[i].chat_id = original.chat_id

C6_Witness ==
  /\ Len(outbound) = 2
  /\ outbound[1].chat_id # outbound[2].chat_id
  /\ outbound[2].recipient_id = "8"

\* C7: inbound messages are processed one at a time in publish order: a
\* message is consumed only when the turn of the one before it has replied or
\* been abandoned, also when it was published while that turn was suspended;
\* replies are in the order of their inbound messages, and a suspended turn is
\* the only open one.
C7_OneAtATime ==
  /\ \A i \in DOMAIN turnlog :
       IF turnlog[i].ev = "consume"
       THEN /\ (i > 1 => /\ turnlog[i - 1].ev \in {"reply", "abandon"}
                         /\ turnlog[i - 1].n = turnlog[i].n - 1)
            /\ (i = 1 => turnlog[i].n = 1)
       ELSE /\ i > 1
            /\ turnlog[i - 1].ev = "consume"
            /\ turnlog[i - 1].n = turnlog[i].n
  /\ \A i, j \in DOMAIN Replies : i < j => Replies[i].n < Replies[j].n
  /\ pc \in {"llm", "tool"} =>
       /\ LastEvent.ev = "consume"
       /\ LastEvent.n = msg.timestamp
  /\ \A i \in DOMAIN inbound : inbound[i].timestamp > msg.timestamp

\* a message was published while the turn before it is suspended in a tool
C7_Witness ==
  /\ pc = "tool"
  /\ inbound # <<>>
  /\ Head(inbound).timestamp = msg.timestamp + 1

\* the last n entries of a sequence
LastN(seq, n) == SubSeq(seq, Len(seq) - n + 1, Len(seq))
Min(a, b) == IF a < b THEN a ELSE b

\* C8: the tool calls of a response are executed one after another in the
\* order of the response: call j+1 starts only after call j has returned, at
\* most one execution is in flight, and the tool entries are added to the
\* session in that order, each with the id and name of its call.
C8_SequentialTools ==
  /\ Cardinality(inflight) <= 1
  /\ \A i \in DOMAIN round_log :
       round_log[i] = IF i % 2 = 1 THEN [ev |-> "start", j |-> (i + 1) \div 2]
                      ELSE [ev |-> "return", j |-> i \div 2]
  /\ Len(round_tools) = Len(round_log) \div 2
  /\ Len(round_log) <= 2 * Len(llm_response.tool_calls)
  /\ \A j \in DOMAIN round_tools :
       /\ round_tools[j].role = "tool"
       /\ round_tools[j].tool_call_id = llm_response.tool_calls[j].id
       /\ round_tools[j].name = llm_response.tool_calls[j].name
  /\ (pc = "tool" \/ (pc = "llm" /\ round_tools # <<>>)) =>
       LET n == Min(Len(round_tools), Len(History))
       IN LastN(History, n) = LastN(round_tools, n)

C8_Witness ==
  /\ pc = "llm"
  /\ Len(round_tools) = 3
  /\ round_tools[1].tool_call_id # round_tools[2].tool_call_id
  /\ inflight = {}

ErrorPrefixes ==
  {"Error: Tool '", "Error: Invalid params for tool '", "Error: executing '"}
IsErrorText(text) == text # <<>> /\ Head(text) \in ErrorPrefixes
ExecuteStep == reg_ops' = reg_ops + 1 /\ reg_last'.op = "execute"

\* C9: execute with a name that is not registered returns an error text that
\* contains the name, raises nothing, invokes no tool's execute entry point
\* and leaves the registry as it was.
C9_UnknownTool ==
  [][(ExecuteStep /\ reg_last'.name \notin DOMAIN tools) =>
       /\ IsErrorText(reg_last'.result)
       /\ Contains(reg_last'.result, reg_last'.name)
       /\ ~reg_last'.raised
       /\ ~reg_last'.invoked
       /\ exec_count' = exec_count
       /\ tools' = tools]_vars

C9_Witness ==
  /\ reg_last.op = "execute"
  /\ reg_last.name \notin DOMAIN tools
  /\ DOMAIN tools # {}
  /\ Contains(reg_last.result, reg_last.name)

\* the JSON type a value has
JsonTypes(val) ==
  CASE val.py = "str" -> {"string"}
    [] val.py = "int" -> {"integer", "number"}
    [] val.py = "float" -> {"number"}
    [] val.py = "bool" -> {"boolean"}
    [] val.py = "list" -> {"array"}
    [] val.py = "dict" -> {"object"}
    [] OTHER -> {"null"}
\* an argument mapping that misses a required field of the schema or carries
\* a declared field whose value is not of the declared type
MissesRequired(schema, params) ==
  \E i \in DOMAIN schema.required : schema.required[i] \notin Keys(params)
CarriesWrongType(schema, params) ==
  \E i \in DOMAIN params.v :
    LET k == params.v[i].k
    IN /\ k \in DOMAIN schema.properties
       /\ "type" \in DOMAIN schema.properties[k]
       /\ schema.properties[k].type \notin JsonTypes(params.v[i].val)
BadArguments(schema, params) ==
  /\ params.py = "dict"
  /\ (MissesRequired(schema, params) \/ CarriesWrongType(schema, params))

\* C10: execute on a registered tool with arguments that miss a required
\* field or carry a field of the wrong type returns an error text and does
\* not invoke the tool's execute entry point.
C10_InvalidArguments ==
  [][(/\ ExecuteStep
      /\ reg_last'.name \in DOMAIN tools
      /\ BadArguments(tools[reg_last'.name].parameters, reg_last'.params)) =>
       /\ IsErrorText(reg_last'.result)
       /\ exec_count' = exec_count]_vars

\* the step is the return of a tool_registry.execute call of the agent loop
ToolStep == pc = "tool" /\ tool_execs' = tool_execs + 1
CurrentCall == llm_response.tool_calls[tc_idx]
FailureText(name, how) ==
  <<"Error: executing '", name, "': ", how.kind, ": ">> \o how.text

\* C11: when the execute entry point of a registered tool raises, the registry
\* call returns a text naming the exception kind and message instead of
\* raising: the agent loop records a tool entry holding that text for the call
\* and the turn goes on (next call, next backend call or the reply); no tool
\* step abandons a turn or ends the run loop.
C11_ToolFailureContained ==
  [][ToolStep =>
       /\ pc' \in {"tool", "llm", "idle"}
       /\ turnlog' = turnlog
          \/ turnlog' = Append(turnlog, [ev |-> "reply", n |-> msg.timestamp])
       /\ Len(round_tools') = Len(round_tools) + 1
       /\ \A how \in Outcomes(CurrentCall.name) :
            (/\ how.raises
             /\ CurrentCall.name \in DOMAIN tools
             /\ validate_params(tools[CurrentCall.name].parameters,
                                CurrentCall.arguments).valid) =>
              LET e == ToolEntry(FailureText(CurrentCall.name, how),
                                 CurrentCall.id, CurrentCall.name)
              IN /\ round_tools'[Len(round_tools')] = e
                 /\ e \in Range(get_history(sessions', msg.chat_id))
                 /\ Contains(e.content.s, how.kind)
                 /\ IsErrorText(e.content.s)]_vars

\* the third call of a round failed in its execute and the backend is asked again
C11_Witness ==
  /\ pc = "llm"
  /\ llm_calls >= 2
  /\ Len(round_tools) = 3
  /\ round_tools[3].name = "code_executor"
  /\ round_tools[3].content =
       Some(<<"Error: executing '", "code_executor", "': ", "RuntimeError", ": ",
              "sandbox unavailable">>)

RegisterStep == reg_ops' = reg_ops + 1 /\ reg_last'.op = "register"

\* C12: registering a tool under a name that is already registered raises and
\* leaves the registry as it was: the same number of tools, and the name still
\* maps to the tool registered first.
C12_DuplicateRegistration ==
  [][(RegisterStep /\ reg_last'.name \in DOMAIN tools) =>
       /\ reg_last'.raised
       /\ Cardinality(DOMAIN tools') = Cardinality(DOMAIN tools)
       /\ tools'[reg_last'.name] = tools[reg_last'.name]
       /\ tools' = tools]_vars

\* the stub was registered, then a registration under its name failed
C12_Witness ==
  /\ reg_ops = 2
  /\ reg_last.op = "register"
  /\ reg_last.name = "stub"
  /\ reg_last.raised
  /\ DOMAIN tools = {"stub"}
  /\ tools["stub"] = StubTool

\* execute on a tool whose validation raises returns the error text
ValidationRaisedSeen ==
  /\ reg_last.op = "execute"
  /\ reg_last.name = "broken"
  /\ ~reg_last.raised
  /\ reg_last.result = <<"Error: executing '", "broken", "': ", "ValueError", ": ",
                         "Schema must be object type, got ", "'array'">>

NonSystem(h) == SelectSeq(h, NotSystem)
Systems(h) == SelectSeq(h, IsSystem)

\* C13: after every add_message a history holds at most max_history
\* non-system entries, and they are the most recently added ones in the order
\* they were added; once more than max_history non-system messages (and no
\* system message) were added, get_history is exactly the last max_history.
C13_TrimKeepsNewest ==
  \A c \in Chats :
    LET h == get_history(sessions, c)
        conv == NonSystem(added[c])
        N == Len(conv)
    IN /\ Len(NonSystem(h)) <= max_history
       /\ NonSystem(h) = LastN(conv, Min(N, max_history))
       /\ (N > max_history /\ Systems(added[c]) = <<>>) =>
            /\ Len(h) = max_history
            /\ h = LastN(added[c], max_history)

\* four non-system messages under a cap of two
C13_Witness ==
  /\ max_history = 2
  /\ Len(added["42"]) = 4
  /\ Systems(added["42"]) = <<>>
  /\ get_history(sessions, "42") = SubSeq(added["42"], 3, 4)

\* C14: trimming never removes a system entry: whatever was added afterwards,
\* the system entries of a history are all the system entries added to the
\* conversation since it was last cleared, in the order they were added.
C14_SystemEntriesKept ==
  \A c \in Chats :
    Systems(get_history(sessions, c)) = Systems(added[c])

\* two system entries, the second added after a user message, survive two
\* more messages under a cap of one
C14_Witness ==
  /\ max_history = 1
  /\ Len(added["42"]) = 5
  /\ added["42"][1].role = "system"
  /\ added["42"][2].role = "user"
  /\ added["42"][3].role = "system"
  /\ added["42"][4].role = "assistant"
  /\ added["42"][5].role = "user"
  /\ get_history(sessions, "42") = <<added["42"][1], added["42"][3], added["42"][5]>>

\* C15: after clear(c) get_history(c) is empty, the next add_message on c
\* yields a history of exactly the entry added, and no entry a clear
\* discarded, system entries included, is in the history again later.
C15_ClearStartsFresh ==
  /\ store_last.op = "clear" =>
       /\ get_history(sessions, store_last.chat_id) = <<>>
       /\ store_last.chat_id \notin DOMAIN sessions
  /\ \A c \in Chats :
       /\ Len(added[c]) = 1 => get_history(sessions, c) = added[c]
       /\ \A i \in DOMAIN wiped[c] :
            wiped[c][i] \notin Range(get_history(sessions, c))

\* a system entry and a user message were cleared; the next message is alone
C15_Witness ==
  /\ store_last = [op |-> "add", chat_id |-> "42"]
  /\ Len(wiped["42"]) = 2
  /\ wiped["42"][1].role = "system"
  /\ Len(added["42"]) = 1
  /\ get_history(sessions, "42") = added["42"]

\* C16: a nested sub-agent loop never executes the sub_agent tool, whatever
\* tool names the backend returns: at most one execution of the sub-agent tool
\* is in progress at any time.
C16_NoNestedSubAgent == Len(frames) <= 1

\* C17: one execution of the sub-agent tool calls the backend at most
\* MAX_SUB_AGENT_ITERATIONS times; an execution whose responses all carried
\* tool calls ends after exactly that many calls and returns a non-empty text:
\* the last response's content or the fixed limit text, not an error.
C17_SubAgentBudget ==
  /\ \A i \in DOMAIN frames :
       /\ frames[i].calls <= MAX_SUB_AGENT_ITERATIONS
       /\ frames[i].calls = frames[i].iteration + 1
  /\ \A i \in DOMAIN sub_rets :
       LET r == sub_rets[i]
       IN /\ r.calls <= MAX_SUB_AGENT_ITERATIONS
          /\ r.exit = "answer" => ~has_tool_calls(r.last)
          /\ r.exit = "rejected" <=> r.calls = 0
          /\ has_tool_calls(r.last) => r.exit \in {"limit", "raised"}
          /\ r.exit = "limit" => has_tool_calls(r.last)
          /\ r.exit = "limit" =>
               /\ r.calls = 5
               /\ r.text # <<>>
               /\ ~IsErrorText(r.text)
               /\ r.text = IF Truthy(r.last.content) THEN r.last.content.s
                           ELSE <<"Sub-agent reached its iteration limit without a final answer.">>

\* an execution ran out of its budget with a response without content
C17_Witness ==
  /\ sub_rets # <<>>
  /\ sub_rets[1].exit = "limit"
  /\ sub_rets[1].calls = 5
  /\ sub_rets[1].text = SubLimitText

\* the texts the backend may return, and the texts a registry call may return
\* for the tool calls the backend may request
ModelTexts == {r.content.s : r \in {x \in Responses : Truthy(x.content)}}
ToolTexts ==
  UNION {UNION {{execute(tools, r.tool_calls[j].name, r.tool_calls[j].arguments,
                         how).result : how \in Outcomes(r.tool_calls[j].name)}
                : j \in DOMAIN r.tool_calls}
         : r \in Responses}
FixedReplies ==
  { <<"I'm not sure how to respond to that.">>,
    <<"I ran into a limit processing your request. Please try again.">>,
    <<"Conversation history cleared. Let's start fresh!">> }

\* C18: the content of every outbound message is the text of a response of
\* the backend in that turn, the empty-answer fallback, the limit message or
\* the clear acknowledgement; never the result of a tool, a validation error
\* or the text of an exception.
C18_ReplyContent ==
  /\ \A i \in DOMAIN outbound :
       /\ outbound[i].content \in ModelTexts \cup FixedReplies
       /\ outbound[i].content \notin ToolTexts
       /\ ~IsErrorText(outbound[i].content)
  /\ TurnReplied =>
       \/ /\ IsClear(msg)
          /\ LastOutbound.content = <<"Conversation history cleared. Let's start fresh!">>
       \/ /\ ~IsClear(msg)
          /\ Truthy(llm_response.content)
          /\ LastOutbound.content = llm_response.content.s
       \/ /\ ~IsClear(msg)
          /\ ~Truthy(llm_response.content)
          /\ LastOutbound.content \in FixedReplies

\* the turn's last tool call failed at the end of the budget; the reply is the
\* last response's text
C18_Witness ==
  /\ TurnReplied
  /\ llm_calls = MAX_TOOL_ITERATIONS
  /\ Len(round_tools) = 3
  /\ IsErrorText(round_tools[3].content.s)
  /\ LastOutbound.content = <<"Let me check.">>

ConsumeEvents == SelectSeq(turnlog, IsConsumeEv)
ConsumeStep == Len(ConsumeEvents') = Len(ConsumeEvents) + 1

\* the inbound queue holds the published messages not yet consumed, in publish
\* order, and the messages consumed so far are the ones published before them
InboundFifo ==
  /\ ~full(inbound)
  /\ Len(inbound) <= Len(published)
  /\ \A i \in DOMAIN ConsumeEvents : ConsumeEvents[i].n = i
  /\ inbound = SubSeq(published, Len(ConsumeEvents) + 1, Len(published))
  /\ ConsumeEvents # <<>> => msg = published[Len(ConsumeEvents)]

\* C19: the inbound queue is an unbounded FIFO: it is never full, so a publish
\* never waits or fails, whatever the number of messages it holds; consume
\* returns only when the queue holds a message, and then its oldest one; every
\* published message is consumed at most once and in publish order, none is
\* lost or duplicated while it waits.
C19_InboundFifo ==
  /\ []InboundFifo
  /\ [][ConsumeStep =>
          /\ inbound # <<>>
          /\ msg' = Head(inbound)
          /\ inbound' = Tail(inbound)]_vars
  /\ [][(Len(published') = Len(published) + 1) =>
          /\ inbound' = Append(inbound, published'[Len(published')])
          /\ UNCHANGED <<msg, turnlog>>]_vars

\* two producers have published and nothing was consumed yet: the queue holds
\* both messages, the older one first
C19_Witness ==
  /\ Len(inbound) = 2
  /\ inbound = published
  /\ inbound[1].chat_id # inbound[2].chat_id
  /\ turnlog = <<>>

\* the callbacks invoked with m so far, in the order of their invocation
CallsIn(log, m) ==
  LET With(e) == e.m = m
      calls == SelectSeq(log, With)
  IN [i \in DOMAIN calls |-> calls[i].cb]
CallsWith(m) == CallsIn(cb_calls, m)
IsPrefix(a, b) == Len(a) <= Len(b) /\ a = SubSeq(b, 1, Len(a))
Dispatching(d, m) == d.pc = "call" /\ d.m = m
InDispatch(m) == Dispatching(disp, m)
SubscribedTo(channel) ==
  IF channel \in DOMAIN subscribers THEN subscribers[channel] ELSE <<>>

\* C20: every outbound message the dispatcher dequeues is handed to the
\* callbacks subscribed under its channel, each exactly once, in the order of
\* their registration, and to no callback subscribed under another channel:
\* while the message is dispatched the invocations are the first k callbacks of
\* the channel's list, when its dispatch ends they are the whole list, and
\* nothing is invoked with it afterwards.
C20_DispatchToSubscribers ==
  /\ [](\A i \in DOMAIN dequeued :
          LET m == dequeued[i]
              cbs == CallsWith(m)
          IN /\ IsPrefix(cbs, SubscribedTo(m.channel))
             /\ \A j, k \in DOMAIN cbs : j # k => cbs[j] # cbs[k]
             /\ \A c \in DOMAIN subscribers \ {m.channel} :
                  \A j \in DOMAIN cbs : cbs[j] \notin Range(subscribers[c])
             /\ InDispatch(m) => Len(cbs) = disp.k)
  /\ [](\A i \in DOMAIN cb_calls :
          \E j \in DOMAIN dequeued : dequeued[j] = cb_calls[i].m)
  /\ [][\A i \in DOMAIN dequeued' :
          LET m == dequeued'[i]
          IN /\ (/\ ~Dispatching(disp', m)
                 /\ (InDispatch(m) \/ i \notin DOMAIN dequeued)) =>
                  CallsIn(cb_calls', m) = SubscribedTo(m.channel)
             /\ (~Dispatching(disp', m) /\ ~InDispatch(m) /\ i \in DOMAIN dequeued) =>
                  CallsIn(cb_calls', m) = CallsWith(m)]_vars

\* a message of a channel with two subscribers, one of them registered while
\* the first was being called, was dispatched to both in order; the other
\* channel has a subscriber too
C20_Witness ==
  /\ Len(dequeued) = 2
  /\ disp.pc = "wait"
  /\ Len(SubscribedTo(dequeued[2].channel)) = 2
  /\ CallsWith(dequeued[2]) = SubscribedTo(dequeued[2].channel)
  /\ dequeued[1].channel # dequeued[2].channel
  /\ Len(SubscribedTo(dequeued[1].channel)) = 1
  /\ Len(cb_calls) >= 2


\* the step in which a callback invocation ends by raising
CallbackRaisedStep ==
  /\ Len(cb_outcomes') = Len(cb_outcomes) + 1
  /\ cb_outcomes'[Len(cb_outcomes')]

\* C21: when a subscriber callback raises during dispatch, the remaining
\* subscribers of the channel are still invoked with the same message (the next
\* one in the very step in which the failure is handled), the dispatch loop
\* keeps running (it goes back to waiting for a message, and only stop() ends
\* it), so later messages are still dispatched, and the failed delivery is not
\* retried: no callback is invoked twice with one message.
C21_CallbackFailureContained ==
  /\ [][CallbackRaisedStep =>
          LET subs == SubscribedTo(disp.m.channel)
          IN IF disp.k < Len(subs)
             THEN /\ cb_calls' = Append(cb_calls, [cb |-> subs[disp.k + 1], m |-> disp.m])
                  /\ disp'.pc = "call"
                  /\ disp'.m = disp.m
             ELSE /\ cb_calls' = cb_calls
                  /\ disp'.pc = (IF disp.running THEN "wait" ELSE "stopped")]_vars
  /\ [](\A i, j \in DOMAIN cb_calls : i # j => cb_calls[i] # cb_calls[j])
  /\ [](Len(cb_outcomes) <= Len(cb_calls) /\ Len(cb_calls) <= Len(cb_outcomes) + 1)
  /\ [](disp.pc = "stopped" => stop_at # -1)

\* the first of two subscribers raised on a message, the second was invoked
\* with the same message afterwards, and a later message was dispatched too
C21_Witness ==
  \E i, j, l \in DOMAIN cb_calls :
    /\ i < j /\ j < l
    /\ i \in DOMAIN cb_outcomes /\ cb_outcomes[i]
    /\ cb_calls[j].m = cb_calls[i].m
    /\ cb_calls[j].cb # cb_calls[i].cb
    /\ cb_calls[l].m # cb_calls[i].m
    /\ l \in DOMAIN cb_outcomes


\* the step in which stop() is called
StopStep == stop_at = -1 /\ stop_at' # -1

\* C22: once stop() has been called, whether before or after the dispatch task
\* began running, the dispatch loop exits after at most its current wait
\* interval or the dispatch of the message it is handling: from the call on it
\* takes at most one further message off the outbound queue, and it is never
\* again waiting for a message with _running set.  stop() itself removes
\* nothing from the outbound queue.
C22_StopEndsDispatch ==
  /\ [](stop_at # -1 => Len(dequeued) <= stop_at + 1)
  /\ [](stop_at # -1 => ~disp.running)
  /\ [][StopStep => outbound' = outbound]_vars

\* the same statement for a stop() called once the dispatch task has begun
\* running
StopAfterStartOnly ==
  [](stop_at # -1 /\ ~(disp.pc = "new") =>
       \/ disp.running      \* stop() came first: the task's start has undone it
       \/ Len(dequeued) <= stop_at + 1)


TgLast == tg_log[Len(tg_log)]
TgStep == Len(tg_log') = Len(tg_log) + 1
TgDid(op) == tg_log # <<>> /\ TgLast.op = op
TgCalled(op) == \E i \in DOMAIN tg_log : tg_log[i].op = op

\* C28: send_message raises RuntimeError in every state in which the handler
\* is not connected (is_running false), before the first connect() as well as
\* after a disconnect(), and passes nothing to the bot.
C28_SendNeedsConnection ==
  \A i \in DOMAIN tg_log :
    (tg_log[i].op = "send_message" /\ ~tg_log[i].running) =>
      (tg_log[i].raised = "RuntimeError" /\ ~tg_log[i].sent)

\* the part of it that holds: before any connect() call
SendBeforeConnect ==
  \A i \in DOMAIN tg_log :
    (tg_log[i].op = "send_message" /\ \A j \in 1..(i - 1) : tg_log[j].op # "connect") =>
      (tg_log[i].raised = "RuntimeError" /\ ~tg_log[i].sent)

\* C29: is_running is true after a successful connect() and false after a
\* disconnect(), also when the shutdown calls raise; connect() on a connected
\* handler builds no Application and adds no handlers; disconnect() on a
\* handler that is not connected does nothing.
C29_ConnectionState ==
  /\ [](TgDid("connect") /\ TgLast.raised = "" => tg.running)
  /\ [](TgDid("disconnect") => ~tg.running)
  /\ [][(TgStep /\ tg_log'[Len(tg_log')].op = "connect" /\ tg.running) =>
          (tg' = tg /\ tg_env' = tg_env)]_vars
  /\ [][(TgStep /\ tg_log'[Len(tg_log')].op = "disconnect" /\ ~tg.running) =>
          (tg' = tg /\ tg_env' = tg_env)]_vars
  /\ [](tg.running => tg.app # 0 /\ tg.bot = tg.app)

\* connect() succeeded, a second connect() changed nothing, then a disconnect()
\* whose shutdown calls raised left the handler not running, and a second
\* disconnect() did nothing
C29_Witness ==
  /\ Len(tg_log) = 4
  /\ tg_log[1].op = "connect" /\ tg_log[1].raised = "" /\ ~tg_log[1].noop
  /\ tg_log[2].op = "connect" /\ tg_log[2].noop
  /\ tg_log[3].op = "disconnect" /\ tg_log[3].logged
  /\ tg_log[4].op = "disconnect" /\ tg_log[4].noop
  /\ ~tg.running
  /\ Len(tg_env.handlers) = 1
  /\ tg_env.shutdowns = <<1>>


\* C23: at shutdown every message the agent loop had published to the outbound
\* queue has been passed to the subscribers of its channel: once the handler
\* is stopped nothing is left in the outbound queue, and the message the
\* dispatcher took last has been handed to every subscriber of its channel.
C23_ShutdownDelivers ==
  app = "stopped" =>
    /\ outbound = <<>>
    /\ disp.m # NoOutbound => disp.k = Len(SubscribedTo(disp.m.channel))


\* whether h is a of which some elements were left out: the elements of h are
\* elements of a, in the order they have in a
RECURSIVE IsSubsequence(_, _)
IsSubsequence(h, a) ==
  IF h = <<>> THEN TRUE
  ELSE IF a = <<>> THEN FALSE
  ELSE IF Head(h) = Head(a) THEN IsSubsequence(Tail(h), Tail(a))
  ELSE IsSubsequence(h, Tail(a))

CopyStep(op) == copy_ops' = copy_ops + 1 /\ copy_last'.op = op
CallerChanges ==
  CopyStep("caller_append") \/ CopyStep("caller_remove") \/ CopyStep("caller_alter")

\* C24: the value get_history returned is independent of the store: whatever
\* the caller does to it (adding or removing elements of the list, altering a
\* field of one of its entries), every later get_history returns what it would
\* have returned without the change.
C24_IndependentCopy ==
  [][(held.kind = "get_history" /\ CallerChanges) =>
       \A c \in Chats : HistoryOf(refs', objs', c) = HistoryOf(refs, objs, c)]_vars

\* the part of it that holds: adding and removing elements of the returned list
ListChangesUnseen ==
  [][(held.kind = "get_history"
      /\ (CopyStep("caller_append") \/ CopyStep("caller_remove"))) =>
       \A c \in Chats : HistoryOf(refs', objs', c) = HistoryOf(refs, objs, c)]_vars

\* C25: build(c) returns one system message holding the configured prompt, or
\* the default one when none (or an empty one) was configured, followed by what
\* get_history(c) returns, in order; it leaves the store as it was (the lists
\* and every object); and a build that follows a build of the same
\* conversation, with nothing done in between, returns an equal list.
C25_BuildIsPure ==
  /\ [](system_prompt # None =>
          system_prompt.s \in {SYSTEM_PROMPT, <<"Be brief.">>})
  /\ [][\A c \in Chats :
          (CopyStep("build") /\ copy_last'.chat_id = c) =>
            /\ Deref(held'.items, objs')
                 = <<SystemEntry(system_prompt.s)>> \o HistoryOf(refs, objs, c)
            /\ refs' = refs
            /\ \A o \in DOMAIN objs : objs'[o] = objs[o]
            /\ copy_last'.again =>
                 Deref(held'.items, objs') = Deref(held.items, objs)]_vars

\* a second build in a row of a conversation with a history, under the default
\* prompt
C25_Witness ==
  /\ copy_last.op = "build"
  /\ copy_last.again
  /\ Len(held.items) >= 2
  /\ system_prompt.s = SYSTEM_PROMPT
  /\ Deref(held.items, objs) =
       <<SystemEntry(SYSTEM_PROMPT)>> \o HistoryOf(refs, objs, held.chat_id)


\* the turn ended at the end of the budget: its last response asked for tools
BudgetReplied == TurnReplied /\ ~IsClear(msg) /\ has_tool_calls(llm_response)

\* C27: when a turn uses all its rounds without a response free of tool calls,
\* the reply is the last text a response of the turn carried, if any response
\* of the turn carried text, and the limit message otherwise; that text is the
\* final assistant entry of the session and the content of the outbound
\* message.
C27_BudgetReplyLastKnownText ==
  BudgetReplied =>
    LET text == IF Truthy(turn_text) THEN turn_text.s ELSE LimitMessage
        h == get_history(sessions, msg.chat_id)
    IN /\ llm_calls = MAX_TOOL_ITERATIONS
       /\ LastOutbound.content = text
       /\ h # <<>>
       /\ h[Len(h)] = AssistantEntry(Some(text), <<>>)

\* what holds instead: the text of the tenth response alone decides
BudgetReplyLastResponse ==
  BudgetReplied =>
    LET text == BudgetFallback(llm_response)
        h == get_history(sessions, msg.chat_id)
    IN /\ llm_calls = MAX_TOOL_ITERATIONS
       /\ LastOutbound.content = text
       /\ h # <<>>
       /\ h[Len(h)] = AssistantEntry(Some(text), <<>>)


Consumed(n) == EventsOf(n, "consume") # {}
\* the turn of message n is over: its reply was published, or a call of the
\* turn raised and the turn was abandoned
TurnOver(n) == EventsOf(n, "reply") # {} \/ EventsOf(n, "abandon") # {}

\* C30: every turn terminates: once a message is consumed its turn comes to an
\* end, and it ends with an outbound message published for it unless a backend
\* call or a tool execution of the turn raised (the turn is then abandoned in
\* the very step of the raise); there is one outbound message per reply.
\* Consequently every message published to the inbound queue is eventually
\* consumed.
C30_TurnsTerminate ==
  /\ \A n \in 1..MaxInbound : Consumed(n) ~> TurnOver(n)
  /\ \A n \in 1..MaxInbound : (Len(published) >= n) ~> Consumed(n)
  /\ [](Len(outbound) = Len(Replies))
  /\ [](\A n \in 1..MaxInbound :
          (EventsOf(n, "reply") # {} /\ EventsOf(n, "abandon") # {}) => FALSE)

\* two messages were published; the turn of the second one ran through the
\* whole budget; both were answered and the loop waits for the next message
C30_Witness ==
  /\ Len(published) = 2
  /\ inbound = <<>>
  /\ Len(Replies) = 2
  /\ Len(outbound) = 2
  /\ pc = "idle"
  /\ TurnReplied
  /\ llm_calls = MAX_TOOL_ITERATIONS

\* C31: every outbound message the dispatcher takes from the queue is passed
\* exactly once to the adapter of the channel its inbound message came from,
\* whatever key CommunicationHandler.start() subscribed the adapter under: no
\* message is dequeued without being handed to the adapter.  (The adapter is
\* the one subscriber, and a message is handed over in the step that dequeues
\* it, so the calls made so far are the messages dequeued so far, one each.)
C31_DequeuedReachAdapter ==
  app # "init" =>
    /\ Len(cb_calls) = Len(dequeued)
    /\ \A i \in DOMAIN dequeued :
         cb_calls[i] = [cb |-> "send_message", m |-> dequeued[i]]

\* C32: after every add_message, whether or not the cap was exceeded, the
\* stored history is all the system entries added since the last clear, in
\* the order added, followed by the newest non-system entries up to the cap,
\* in the order added: a system entry added after non-system entries stands
\* in front of them.
C32_SystemsThenRetained ==
  \A c \in Chats :
    LET system == SelectSeq(added[c], IsSystem)
        conversation == SelectSeq(added[c], NotSystem)
    IN get_history(sessions, c) =
         system \o LastN(conversation, Min(max_history, Len(conversation)))

\* add_message has just put a system entry in front of two non-system entries
\* added before it, with the cap not exceeded
C32_Witness ==
  /\ store_last.op = "add"
  /\ LET c == store_last.chat_id
         h == get_history(sessions, c)
     IN /\ Len(added[c]) = 3
        /\ NotSystem(added[c][1]) /\ NotSystem(added[c][2]) /\ IsSystem(added[c][3])
        /\ max_history >= 2
        /\ h = <<added[c][3], added[c][1], added[c][2]>>

\* C33: add_message(c, ...) and clear(c) change only conversation c: every
\* other conversation id has a session after the call exactly if it had one
\* before, with the same history; and clear on an id that has no session
\* leaves the whole store as it was.
C33_OtherConversationsUntouched ==
  [][store_ops' # store_ops =>
       /\ \A c \in Chats \ {store_last'.chat_id} :
            /\ (c \in DOMAIN sessions') = (c \in DOMAIN sessions)
            /\ get_history(sessions', c) = get_history(sessions, c)
       /\ (store_last'.op = "clear" /\ store_last'.chat_id \notin DOMAIN sessions) =>
            sessions' = sessions]_vars

\* clear was just called on a conversation that never had a session, while
\* the other conversation holds two entries
C33_Witness ==
  /\ store_last = [op |-> "clear", chat_id |-> "43"]
  /\ added["43"] = <<>> /\ wiped["43"] = <<>>
  /\ Len(get_history(sessions, "42")) = 2
  /\ "43" \notin DOMAIN sessions

\* C34: validation accepts a property value against a type tag exactly when
\* the value is of that JSON type: in every execute call on a registered tool,
\* each argument of a declared type passes the check of its type tag if and
\* only if its JSON type is the declared one, and a call carrying an argument
\* of another JSON type returns an error text without executing the tool.
C34_TypeTagsExact ==
  (/\ reg_last.op = "execute"
   /\ reg_last.name \in DOMAIN tools
   /\ reg_last.params.py = "dict") =>
    LET schema == tools[reg_last.name].parameters
        params == reg_last.params
    IN /\ \A i \in DOMAIN params.v :
            LET k == params.v[i].k
                val == params.v[i].val
            IN (k \in DOMAIN schema.properties /\ "type" \in DOMAIN schema.properties[k]) =>
                 LET t == schema.properties[k].type
                 IN (Validate(val, [type |-> t], k) = <<>>) <=> (t \in JsonTypes(val))
       /\ CarriesWrongType(schema, params) =>
            (~reg_last.invoked /\ IsErrorText(reg_last.result))

\* C35: at every backend call of a turn the in-flight message list passed to
\* the backend is what the context builder returns for the session at that
\* moment, the system prompt followed by the session history: the assistant
\* and tool entries are added to both with the same fields, and the two do
\* not diverge during the turn, trimming included.
C35_InFlightIsContext ==
  pc = "llm" => messages = context_build(sessions, msg.chat_id)

\* the step abandons the current turn
AbandonStep ==
  /\ Len(turnlog') = Len(turnlog) + 1
  /\ turnlog'[Len(turnlog')].ev = "abandon"
\* the step consumes a message that is not the clear command, right after a
\* turn of the same conversation was abandoned
ConsumeAfterAbandon ==
  /\ turnlog # <<>>
  /\ LastEvent.ev = "abandon"
  /\ Len(turnlog') = Len(turnlog) + 1
  /\ turnlog'[Len(turnlog')].ev = "consume"
  /\ msg'.chat_id = msg.chat_id

C37_LastEntryIsReply ==
  (TurnReplied /\ ~IsClear(msg) /\ max_history >= 1) =>
    /\ History # <<>>
    /\ History[Len(History)] = AssistantEntry(Some(LastOutbound.content), <<>>)
    /\ LastOutbound = OutboundFor(msg, History[Len(History)].content.s)

\* the second turn of a conversation ended at the budget after trimming, with
\* the fallback text as its reply and as the last entry of the history
C37_Witness ==
  /\ TurnReplied
  /\ ~IsClear(msg)
  /\ trimmed
  /\ msg.timestamp = 2
  /\ llm_calls = MAX_TOOL_ITERATIONS
  /\ LastOutbound.content = LimitMessage
  /\ History[Len(History)] = AssistantEntry(Some(LimitMessage), <<>>)


\* the registry's text for the backend exception of a nested loop
NestedErrorText ==
  <<"Error: executing '", "sub_agent", "': ", "RuntimeError", ": ", "backend down">>
\* the step returns a sub_agent call whose nested loop ended in an exception
\* of its backend
NestedFailureReturn ==
  /\ AtSubAgentCall
  /\ frames = <<>>
  /\ sub_runs = SubAgentResults + 1
  /\ sub_rets[Len(sub_rets)].exit = "raised"
  /\ tool_execs' = tool_execs + 1
\* the step records the error text as the tool entry of the sub_agent call
RecordsNestedError ==
  /\ ~AbandonStep
  /\ Len(get_history(sessions', msg.chat_id)) > Len(History)
  /\ get_history(sessions', msg.chat_id)[Len(History) + 1] =
       ToolEntryFor(llm_response.tool_calls, tc_idx, NestedErrorText)

\* C38 as stated: the step that returns a nested backend failure does not
\* abandon the turn, records the registry's error text as the tool entry of
\* the sub_agent call, and the loop calls the backend again.
C38_BackendCalledAgain ==
  [][NestedFailureReturn =>
       /\ RecordsNestedError
       /\ pc' = "llm"
       /\ llm_calls' = llm_calls + 1]_vars

\* C38: a backend exception raised inside a nested sub-agent loop does not
\* abandon the parent turn: the registry turns it into an error text, the
\* parent loop records it as the tool entry of the sub_agent call and goes on
\* as after any tool result: it calls the backend again while the budget
\* lasts, and in the last round of the budget it publishes the fallback reply
\* at once; the turn is abandoned only at a backend call of its own, never
\* while a nested loop runs.
C38_NestedFailureContained ==
  /\ [][NestedFailureReturn =>
          /\ RecordsNestedError
          /\ IF MoreIterations(iteration)
             THEN /\ pc' = "llm"
                  /\ llm_calls' = llm_calls + 1
                  /\ outbound' = outbound
             ELSE /\ Len(outbound') = Len(outbound) + 1
                  /\ turnlog'[Len(turnlog')].ev = "reply"
                  /\ llm_calls' = llm_calls]_vars
  /\ [][AbandonStep => (pc = "llm" /\ frames = <<>>)]_vars

\* the nested backend raised, the parent recorded the error text, called its
\* backend again and published the reply of that second call
C38_Witness ==
  /\ TurnReplied
  /\ llm_calls = 2
  /\ Len(History) = 4
  /\ History[3] = ToolEntryFor(<<CallSub>>, 1, NestedErrorText)
  /\ Len(outbound) = 1


\* SubAgentTool.execute is running, was entered or was left by the step
InSubAgent == frames # <<>> \/ frames' # <<>> \/ sub_runs' # sub_runs
\* the step returns a sub_agent call whose nested loop ended with a text
NestedTextReturn ==
  /\ AtSubAgentCall
  /\ frames = <<>>
  /\ sub_runs = SubAgentResults + 1
  /\ sub_rets[Len(sub_rets)].exit \in {"answer", "limit"}
  /\ tool_execs' = tool_execs + 1
\* the text a nested loop ended with: the content of its last response, or
\* the stand-in for an empty one
NestedFinalText(rec) ==
  IF Truthy(rec.last.content) THEN rec.last.content.s
  ELSE IF rec.exit = "answer"
  THEN <<"Sub-agent completed but produced no output.">>
  ELSE <<"Sub-agent reached its iteration limit without a final answer.">>

\* C39: executing the sub-agent tool leaves the session store unchanged: no
\* step of the nested loop, from its start to its end, changes any
\* conversation, so none of its system, user, assistant or tool messages is
\* stored; the parent conversation gains, at the return of the call, the one
\* tool entry holding the nested loop's final text (followed by the final
\* assistant entry when the budget ends there), and during the turn it holds
\* the user entry, one assistant entry per answered backend call of the
\* parent and one tool entry per tool call of the parent, nothing else.
C39_SubAgentLeavesSessions ==
  /\ [][InSubAgent => sessions' = sessions]_vars
  /\ [][NestedTextReturn =>
          LET now == get_history(sessions', msg.chat_id)
              entry == ToolEntryFor(llm_response.tool_calls, tc_idx,
                                    NestedFinalText(sub_rets[Len(sub_rets)]))
          IN /\ Len(now) = Len(History) + (IF MoreIterations(iteration) THEN 1 ELSE 2)
             /\ SubSeq(now, 1, Len(History)) = History
             /\ now[Len(History) + 1] = entry
             /\ Len(now) = Len(History) + 2 => IsAssistant(now[Len(now)])
             /\ \A c \in DOMAIN sessions' \ {msg.chat_id} :
                  c \in DOMAIN sessions /\ sessions'[c] = sessions[c]]_vars
  /\ []((pc \in {"llm", "tool"} /\ ~trimmed) =>
          /\ Len(Gained) = tool_execs + (IF pc = "llm" THEN llm_calls ELSE llm_calls + 1)
          /\ \A i \in DOMAIN Gained : Gained[i].role # "system"
          /\ Len(SelectSeq(Gained, IsSubAgentEntry)) <= sub_runs)

\* the nested loop called the backend twice, with a clock call between, and
\* ended with "Done."; the parent conversation holds the user entry, the
\* assistant entry with the sub_agent call, the one tool entry and the reply
C39_Witness ==
  /\ TurnReplied
  /\ Len(History) = 4
  /\ History[2].role = "assistant"
  /\ History[3] = ToolEntryFor(<<CallSub>>, 1, <<"Done.">>)
  /\ sub_rets # <<>>
  /\ sub_rets[1].calls = 2
  /\ sub_rets[1].exit = "answer"


\* the turn of msg ended because the budget was used up: its last response
\* still asked for tools
BudgetExhausted ==
  /\ TurnReplied
  /\ ~IsClear(msg)
  /\ has_tool_calls(llm_response)
\* an assistant entry that asks for tools: the head of a tool-call batch
IsBatchEntry(e) == e.role = "assistant" /\ e.tool_calls # <<>>
IsToolEntry(e) == e.role = "tool"

\* C40: in a turn that exhausts the budget the tool calls of the 10th
\* response are executed and recorded as tool entries although no backend
\* call follows them: the turn made MAX_TOOL_ITERATIONS backend calls and
\* recorded as many tool-call batches, each assistant entry with tool calls
\* being followed by one tool entry per call, and the session ends with the
\* assistant entry of the 10th response, its tool entries and the final
\* assistant entry.
C40_LastBatchExecuted ==
  BudgetExhausted =>
    LET calls == llm_response.tool_calls
        n == Len(calls)
        last == Len(History)
    IN /\ llm_calls = MAX_TOOL_ITERATIONS
       /\ Len(SelectSeq(Gained, IsBatchEntry)) = MAX_TOOL_ITERATIONS
       /\ Len(SelectSeq(Gained, IsToolEntry)) = tool_execs
       /\ \A i \in DOMAIN Gained :
            IsBatchEntry(Gained[i]) =>
              \A j \in DOMAIN Gained[i].tool_calls :
                /\ i + j < Len(Gained)
                /\ Gained[i + j].role = "tool"
                /\ Gained[i + j].tool_call_id = Gained[i].tool_calls[j].id
       /\ Len(round_tools) = n
       /\ last >= n + 2
       /\ History[last - n - 1] = AssistantEntry(llm_response.content, SerialisedCalls(calls))
       /\ SubSeq(History, last - n, last - 1) = round_tools
       /\ \A j \in 1..n :
            /\ round_tools[j].role = "tool"
            /\ round_tools[j].tool_call_id = calls[j].id
       /\ History[last] =
            AssistantEntry(Some(IF Truthy(llm_response.content)
                                THEN llm_response.content.s
                                ELSE <<"I ran into a limit processing your request. Please try again.">>),
                           <<>>)

\* a turn of ten rounds whose 10th response asked for three tools: the three
\* were executed and their entries stand before the final assistant entry
C40_Witness ==
  /\ BudgetExhausted
  /\ Len(llm_response.tool_calls) = 3
  /\ Len(round_tools) = 3
  /\ tool_execs >= MAX_TOOL_ITERATIONS + 2
  /\ History[Len(History) - 1] = round_tools[3]

====
